---- MODULE Spec2Model ----
(***************************************************************************)
(* Celery tasks that reconcile program and course credentials with the     *)
(* Credentials service (openedx/core/djangoapps/programs/tasks.py) and the *)
(* notify_credentials helpers (openedx/core/djangoapps/credentials/tasks/  *)
(* v1/tasks.py).                                                           *)
(*                                                                         *)
(* Spec      : one task chain at a time (a first run and its retries) of   *)
(*             award_program_certificates, revoke_program_certificates,    *)
(*             award_course_certificate or send_grade_to_credentials, for  *)
(*             one student, against the Credentials service.               *)
(* SpecPaged : the paged_query generator over one queryset.                *)
(* SpecBackoff : one chain of award_program_certificates or of             *)
(*             revoke_program_certificates from its first run to its end,  *)
(*             with the countdowns of its retries summed up.               *)
(***************************************************************************)
EXTENDS Integers, Sequences, FiniteSets, TLC

\* ------------------------------------------------------------------ bounds
\* number of programs in the catalog (program UUIDs are 1..NumPrograms, their
\* order is the order of the UUID strings)
NumPrograms == 2

\* largest queryset and page size given to paged_query, and the number of
\* OperationalErrors the datastore raises during one iteration
MaxItems == 5
MaxPageSize == 3
MaxErrors == 2

\* refunds: the last day of the clock (days are counted from the enrollment)
MaxDay == 5

\* ------------------------------------------------------- program constants
MAX_RETRIES == 11

\* rate_limit_countdown = 60
RateLimitCountdown == 60

\* task names
AwardProgram == "award_program_certificates"
RevokeProgram == "revoke_program_certificates"
AwardCourse == "award_course_certificate"
SendGrade == "send_grade_to_credentials"

Programs == 1..NumPrograms

\* usernames: "alice" is a local user, "nobody" matches no local user
Users == {"alice"}
Usernames == {"alice", "nobody"}

\* course-run keys; InvalidKey is a string CourseKey.from_string rejects and
\* that no program contains
InvalidKey == 0
CourseRuns == {1, 2}

\* the catalog: the course runs of each program
ProgramCourseRuns(p) ==
    IF p = 1 THEN {1} ELSE IF p % 2 = 0 THEN {1, 2} ELSE {2}

\* results of one call to the Credentials API client:
\*   ok            2xx
\*   not_found     exceptions.HttpNotFoundError (404)
\*   client_error  exceptions.HttpClientError, status other than 404 and 429
\*   rate_limited  exceptions.HttpClientError with status_code 429
\*   error         any other exception (transport failure, 5xx)
Outcomes == {"ok", "not_found", "client_error", "rate_limited", "error"}

\* the value "all" of programs_without_certificates, and a spelling of it in
\* another case ("ALL")
AllLower == 0
AllUpper == -1

\* str(x).lower()
Lower(x) == IF x = AllUpper THEN AllLower ELSE x

\* configured values of programs_without_certificates
PwcChoices ==
    {<<>>, <<AllLower>>, <<AllUpper>>, <<1, AllLower>>}

Range(s) == {s[i] : i \in 1..Len(s)}

\* variant of Sorted: descending order
RECURSIVE Unsorted(_)
Unsorted(S) ==
    IF S = {} THEN <<>>
    ELSE LET m == CHOOSE x \in S : \A y \in S : x >= y
         IN  <<m>> \o Unsorted(S \ {m})

\* sorted(list(S))
RECURSIVE Sorted(_)
Sorted(S) ==
    IF S = {} THEN <<>>
    ELSE LET m == CHOOSE x \in S : \A y \in S : x <= y
         IN  <<m>> \o Sorted(S \ {m})

\* ---------------------------------------------------------------- state
VARIABLES
    completed,      \* programs the student has completed (ProgramProgressMeter)
    certified,      \* Credentials service: programs with an awarded credential
    issuance_enabled,   \* CredentialsApiConfig.current().is_learner_issuance_enabled
    req,            \* self.request: task, username, course_key, retries
    status,         \* IDLE, PENDING, RUNNING, SUCCEEDED, RETRY_SCHEDULED, FAILED
    runs,           \* executions of the current chain so far
    countdown,      \* countdown passed to the last self.retry of the chain
    cause,          \* why the invocation ended
    pc,             \* position of the running invocation
    flag,           \* is_learner_issuance_enabled as read by the invocation
    pwc,            \* programs_without_certificates as read
    certificate,    \* award_course_certificate: the eligible certificate as read
    course_overview,    \* award_course_certificate: the course overview as read
    completed_programs,       \* keys of completed_programs as read
    existing_program_uuids,   \* get_certified_programs(student) as read
    uuids,          \* new_program_uuids / program_uuids_to_revoke
    idx,            \* position of the loop in uuids
    failed,         \* failed_program_certificate_{award,revoke}_attempts
    posts,          \* credential POSTs of the invocation: <<uuid, outcome>>
    calls,          \* Credentials client calls made by the invocation
    got429,         \* a client call of the invocation was answered 429
    changed,        \* the completed set was changed since the last invocation
    prev,           \* the invocation before this one
    earlier,        \* the earlier attempts of the chain, when recorded
    metered,        \* the chain's retries are summed up in waited and limited
    waited,         \* sum of the countdowns of the retries scheduled in the chain
    limited,        \* invocations of the chain that ended on a 429 answer
    queryset,       \* paged_query: the queryset, a sequence of items
    delay,          \* paged_query: the delay argument
    page_size,      \* paged_query: the page_size argument
    count,          \* paged_query: queryset.count() taken at the start
    pages,          \* paged_query: number of pages
    page,           \* paged_query: the page of the loop
    index,          \* paged_query: items yielded from the page
    gen,            \* paged_query: position of the generator ("raised": an
                    \* exception left it)
    yielded,        \* paged_query: the pairs yielded so far
    page_lens,      \* paged_query: items yielded from each page that ended
    sleeps,         \* paged_query: the pages before which time.sleep ran
    errors,         \* paged_query: OperationalErrors raised so far
    qlog,           \* paged_query: the log records written
    options,        \* handle_notify_credentials: the options argument
    certs,          \* handle_notify_credentials: the certificates fetched
    grades,         \* handle_notify_credentials: the grades fetched
    phase,          \* handle_notify_credentials: position of the task
    course_cert_info,   \* send_notifications: mode and status by course run
    dispatched,     \* the handler calls and grade tasks dispatched, in order
    graded,         \* what send_grade_if_interesting was given and read
    handled,        \* send_notifications: items of the running loop handled
    nlog,           \* handle_notify_credentials: the log records written
    inst,           \* concurrent invocations: each one's task and locals
    rposts,         \* concurrent invocations: the listings and POSTs, in order
    enrollment,     \* CourseEnrollment: its attributes and can_refund
    world,          \* refunds: the clock, the order, the course, the config
    ecommerce_calls,    \* refunds: calls of the e-commerce API client
    answer,         \* refunds: the last call and what it returned
    eligible_available_certificates,    \* GeneratedCertificate: <<user, course run>>
                    \* of the eligible certificates that are available
    certificate_available_date,     \* the argument of
                    \* update_certificate_visible_date_on_course_update
    delayed         \* the messages it put on the queue with .delay, in order

env == <<completed, certified, issuance_enabled>>
chain == <<req, status, runs, countdown, cause>>
locals == <<pc, flag, pwc, certificate, course_overview, completed_programs,
            existing_program_uuids, uuids, idx, failed, posts, calls, got429>>
hist == <<changed, prev, earlier>>
meter == <<metered, waited, limited>>
paged == <<queryset, delay, page_size, count, pages, page, index, gen,
           yielded, page_lens, sleeps, errors, qlog>>
tasks == <<env, chain, locals, hist, meter>>
notify == <<options, certs, grades, phase, course_cert_info, dispatched,
            graded, handled, nlog>>
race == <<inst, rposts>>
refund == <<enrollment, world, ecommerce_calls, answer>>
visible == <<eligible_available_certificates, certificate_available_date,
             delayed>>
rest == <<notify, race, refund, visible>>
vars == <<tasks, paged, rest>>

\* prev.again: the invocation before this one was award_program_certificates
\* for the same student and the completed set was not changed in between;
\* prev.tried: the programs whose POST in it ended in success, not-found, a
\* client error or a transport failure; prev.ok: those whose POST succeeded
NoPrev == [again |-> FALSE, tried |-> {}, ok |-> {}]

\* earlier.on: the chain's attempts are recorded; earlier.ok, earlier.soft,
\* earlier.hard: the programs whose POST in an earlier attempt of the chain
\* succeeded, ended in not-found or an ordinary client error, was put on the
\* failed list; earlier.seen: the programs an earlier attempt read as completed
NoEarlier(on) == [on |-> on, ok |-> {}, soft |-> {}, hard |-> {}, seen |-> {}]

\* handle_notify_credentials was not called
NoNotify ==
    /\ options = [site |-> "", dry_run |-> FALSE, notify_programs |-> FALSE,
                  delay |-> 0, page_size |-> 1]
    /\ certs = <<>>
    /\ grades = <<>>
    /\ phase = "idle"
    /\ course_cert_info = {}
    /\ dispatched = <<>>
    /\ graded = <<>>
    /\ handled = 0
    /\ nlog = <<>>

\* no concurrent invocations
NoRace ==
    /\ inst = <<>>
    /\ rposts = <<>>

\* an attribute or a result that is None, as a date
NoDate == -1

\* the order:date_placed attribute is missing
NoAttribute == [text |-> NoDate]

\* user_already_has_certs_for is not passed (None)
NotGiven == {NoDate}

\* no call of refundable() or refund_cutoff_date() was made yet
NoAnswer ==
    [call |-> "none", value |-> "None", cutoff |-> NoDate, now |-> 0,
     cert |-> FALSE, can_refund |-> "None", window |-> 0, fetched |-> FALSE,
     cached |-> FALSE, order_number |-> FALSE, expired |-> FALSE,
     certs_for |-> "none", before |-> "none"]

\* no enrollment is looked at
NoRefund ==
    /\ enrollment = [order_number |-> FALSE, date_placed |-> NoAttribute,
                     can_refund |-> "None"]
    /\ world = [now |-> 0, order_date |-> 0, course_start |-> 0,
                refund_window |-> 0, has_cert |-> FALSE, mode_expired |-> FALSE]
    /\ ecommerce_calls = 0
    /\ answer = NoAnswer

\* update_certificate_visible_date_on_course_update was not called
NoVisible ==
    /\ eligible_available_certificates = {}
    /\ certificate_available_date = NoDate
    /\ delayed = <<>>

\* nothing but the tasks and the generator at hand is in use
NoRest == NoNotify /\ NoRace /\ NoRefund /\ NoVisible

\* ------------------------------------------------------------- task runner
\* variant of Countdown: powers of three
CountdownTriple(n) == 3 ^ n

\* variant of Countdown: a linear backoff
CountdownLinear(n) == 2 * n

\* countdown = 2 ** self.request.retries
Countdown(n) == 2 ^ n

\* variant of RetriesExhausted: one retry more
RetriesExhaustedLate(n) == n > MAX_RETRIES

\* celery Task.retry(max_retries=MAX_RETRIES): the exc is raised instead of a
\* retry once request.retries + 1 > max_retries
RetriesExhausted(n) == n + 1 > MAX_RETRIES

\* variant of NextAttempt: a rate-limited retry does not use up an attempt
NextAttemptFree(n, why) == IF why = "rate_limited" THEN n ELSE n + 1

\* celery Task.retry: the message is sent again with retries = request.retries + 1,
\* whatever the reason of the retry
NextAttempt(n, why) == n + 1

\* the retry as the chain's meter sees it: a scheduled retry adds its
\* countdown, an invocation ended by a 429 answer is counted
Metered(cd, why, scheduled) ==
    /\ metered' = metered
    /\ waited' = IF metered /\ scheduled THEN waited + cd ELSE waited
    /\ limited' = IF metered /\ why = "rate_limited" THEN limited + 1 ELSE limited

\* variant of Retry: the message is re-enqueued with the same attempt number
RetrySameAttempt(cd, why) ==
    /\ countdown' = cd
    /\ cause' = why
    /\ pc' = "done"
    /\ status' = IF RetriesExhausted(req.retries) THEN "FAILED"
                 ELSE "RETRY_SCHEDULED"
    /\ req' = req
    /\ Metered(cd, why, ~RetriesExhausted(req.retries))
    /\ UNCHANGED runs

\* self.retry(exc=exception, countdown=cd, max_retries=MAX_RETRIES)
Retry(cd, why) ==
    /\ countdown' = cd
    /\ cause' = why
    /\ pc' = "done"
    /\ IF RetriesExhausted(req.retries)
          THEN /\ status' = "FAILED"
               /\ req' = req
          ELSE /\ status' = "RETRY_SCHEDULED"
               /\ req' = [req EXCEPT !.retries = NextAttempt(@, why)]
    /\ Metered(cd, why, ~RetriesExhausted(req.retries))
    /\ UNCHANGED runs

\* return / falling off the end of the task
Return(why) ==
    /\ status' = "SUCCEEDED"
    /\ cause' = why
    /\ pc' = "done"
    /\ UNCHANGED <<req, runs, countdown, meter>>

\* an exception that no handler of the task catches
Crash(why) ==
    /\ status' = "FAILED"
    /\ cause' = why
    /\ pc' = "done"
    /\ UNCHANGED <<req, runs, countdown, meter>>

Requests ==
    [task : {AwardProgram}, username : Usernames, course_key : {InvalidKey},
     retries : {0}]
    \cup [task : {RevokeProgram}, username : Usernames,
          course_key : CourseRuns \cup {InvalidKey}, retries : {0}]
    \cup [task : {AwardCourse}, username : Usernames,
          course_key : {1, InvalidKey}, retries : {0}]
    \cup [task : {SendGrade}, username : Users,
          course_key : {1, InvalidKey}, retries : {0}]

\* the programs whose POST succeeded in the invocation
OkPosts == {posts[i][1] : i \in {j \in 1..Len(posts) : posts[j][2] = "ok"}}

\* the invocation that just ended, as the next one will see it
Summary ==
    IF req.task = AwardProgram /\ req.username \in Users
       THEN [again |-> TRUE,
             tried |-> {posts[i][1] : i \in {j \in 1..Len(posts) :
                                               posts[j][2] # "rate_limited"}},
             ok |-> OkPosts]
       ELSE NoPrev

\* the programs whose POST in the invocation ended in one of the outcomes
PostsEnded(outcomes) ==
    {posts[i][1] : i \in {j \in 1..Len(posts) : posts[j][2] \in outcomes}}

\* the attempts of the chain up to the one that just ended, as its retry
\* will see them
Earlier ==
    [on |-> earlier.on,
     ok |-> earlier.ok \cup OkPosts,
     soft |-> earlier.soft \cup PostsEnded({"not_found", "client_error"}),
     hard |-> earlier.hard \cup Range(failed),
     seen |-> earlier.seen \cup completed_programs]

FreshLocals ==
    /\ pc' = "entry"
    /\ flag' = "unread"
    /\ pwc' = <<>>
    /\ certificate' = "unread"
    /\ course_overview' = "unread"
    /\ completed_programs' = {}
    /\ existing_program_uuids' = {}
    /\ uuids' = <<>>
    /\ idx' = 1
    /\ failed' = <<>>
    /\ posts' = <<>>
    /\ calls' = {}
    /\ got429' = FALSE

\* no chain was enqueued yet
NoTask ==
    /\ certified = {}
    /\ req = [task |-> "none", username |-> "alice", course_key |-> InvalidKey,
              retries |-> 0]
    /\ status = "IDLE"
    /\ runs = 0
    /\ countdown = 0
    /\ cause = "none"
    /\ pc = "done"
    /\ flag = "unread"
    /\ pwc = <<>>
    /\ certificate = "unread"
    /\ course_overview = "unread"
    /\ completed_programs = {}
    /\ existing_program_uuids = {}
    /\ uuids = <<>>
    /\ idx = 1
    /\ failed = <<>>
    /\ posts = <<>>
    /\ calls = {}
    /\ got429 = FALSE
    /\ changed = FALSE
    /\ prev = NoPrev
    /\ earlier = NoEarlier(FALSE)
    /\ waited = 0
    /\ limited = 0

\* paged_query(queryset, delay, page_size) was called and has not run yet
NewGenerator(q, d, ps, g) ==
    /\ queryset = q
    /\ delay = d
    /\ page_size = ps
    /\ gen = g
    /\ count = 0
    /\ pages = 0
    /\ page = 0
    /\ index = 0
    /\ yielded = <<>>
    /\ page_lens = <<>>
    /\ sleeps = <<>>
    /\ errors = 0
    /\ qlog = <<>>

Init ==
    /\ completed \in SUBSET Programs
    /\ issuance_enabled \in BOOLEAN
    /\ metered = FALSE
    /\ NoTask
    /\ NewGenerator(<<>>, 0, 1, "unused")
    /\ NoRest

\* task.delay(...): a new chain is put on the queue
Enqueue ==
    /\ status \in {"IDLE", "SUCCEEDED", "FAILED"}
    /\ \E r \in Requests : req' = r
    /\ status' = "PENDING"
    /\ runs' = 0
    /\ countdown' = 0
    /\ cause' = "none"
    /\ prev' = IF status = "IDLE" THEN NoPrev ELSE Summary
    /\ changed' = FALSE
    /\ earlier' = NoEarlier(earlier.on)
    /\ FreshLocals
    /\ waited' = 0
    /\ limited' = 0
    /\ UNCHANGED <<env, metered, paged, rest>>

\* a worker takes the message (first run or retry) and runs the task
Start ==
    /\ status \in {"PENDING", "RETRY_SCHEDULED"}
    /\ status' = "RUNNING"
    /\ runs' = runs + 1
    /\ LET last == IF status = "RETRY_SCHEDULED" THEN Summary ELSE prev
           same == req.task = AwardProgram /\ req.username \in Users /\ ~changed
       IN  prev' = IF last.again /\ same THEN last ELSE NoPrev
    /\ changed' = FALSE
    /\ earlier' = IF earlier.on /\ status = "RETRY_SCHEDULED" THEN Earlier
                  ELSE earlier
    /\ countdown' = 0
    /\ cause' = "none"
    /\ FreshLocals
    /\ UNCHANGED <<env, req, meter, paged, rest>>

\* the grading subsystem: the student completes (or loses) a program while
\* the task's message waits in the queue; a task reads the completed set once,
\* at entry
ChangeCompleted ==
    /\ status \in {"PENDING", "RETRY_SCHEDULED"}
    /\ \E p \in Programs :
         completed' = IF p \in completed THEN completed \ {p}
                      ELSE completed \cup {p}
    /\ changed' = TRUE
    /\ UNCHANGED <<certified, issuance_enabled, chain, locals, prev, earlier, meter,
                 paged, rest>>

\* an operator switches issuance off or on in the API config while the
\* task's message waits in the queue; a task reads the flag once, at entry
ToggleIssuance ==
    /\ status \in {"PENDING", "RETRY_SCHEDULED"}
    /\ issuance_enabled' = ~issuance_enabled
    /\ UNCHANGED <<completed, certified, chain, locals, hist, meter, paged, rest>>

\* variant of IsLearnerIssuanceEnabled: the flag is taken to be enabled
IssuanceAssumedEnabled == TRUE

\* CredentialsApiConfig.current().is_learner_issuance_enabled, as the task
\* reads it at entry
IsLearnerIssuanceEnabled == issuance_enabled

\* variant of DoesNotExist: every username is taken to be a user's
UserAlwaysFound(username) == FALSE

\* User.objects.get(username=username) raises User.DoesNotExist
DoesNotExist(username) == username \notin Users

\* ------------------------------------------------- what an invocation read
\* the values a task's entry code leaves in its local variables, and how the
\* entry code ended: "loop" (the POST loop follows), "return", "retry", "crash"
Locals0 ==
    [flag |-> "unread", pwc |-> <<>>, certificate |-> "unread",
     course_overview |-> "unread", completed_programs |-> {},
     existing |-> {}, uuids |-> <<>>, posts |-> <<>>, calls |-> {},
     got429 |-> FALSE, end |-> "loop", why |-> "none", cd |-> 0]

\* the end of an invocation's step, as a transition of the task runner
End(r) ==
    CASE r.end = "return" -> Return(r.why)
      [] r.end = "retry" -> Retry(r.cd, r.why)
      [] r.end = "crash" -> Crash(r.why)
      [] OTHER -> /\ pc' = "loop"
                  /\ UNCHANGED <<chain, meter>>

SetLocals(r) ==
    /\ flag' = r.flag
    /\ pwc' = r.pwc
    /\ certificate' = r.certificate
    /\ course_overview' = r.course_overview
    /\ completed_programs' = r.completed_programs
    /\ existing_program_uuids' = r.existing
    /\ uuids' = r.uuids
    /\ posts' = r.posts
    /\ calls' = r.calls
    /\ got429' = r.got429

\* --------------------------------------------- award_program_certificates
\* variant of IsAllSentinel: "all" is looked for at every position
IsAllSentinelAnywhere(cfg) == \E i \in DOMAIN cfg : Lower(cfg[i]) = AllLower

\* programs_without_certificates and str(programs_without_certificates[0]).lower() == "all"
IsAllSentinel(cfg) == cfg # <<>> /\ Lower(cfg[1]) = AllLower

\* variant of AwardedAndSkipped: the awarded programs are not skipped
SkippedOnly(existing, cfg) == Range(cfg)

\* list(set(existing_program_uuids + list(programs_without_certificates)))
AwardedAndSkipped(existing, cfg) == existing \cup Range(cfg)

\* variant of NewProgramUuids: nothing is subtracted
AllCompletedUuids(keys, skipped) == Sorted(keys)

\* sorted(list(set(completed_programs.keys()) - set(awarded_and_skipped_program_uuids)))
NewProgramUuids(keys, skipped) == Sorted(keys \ skipped)

\* variant of NothingCompleted: no early return
NothingCompletedIgnored(keys) == FALSE

\* if not completed_programs
NothingCompleted(keys) == keys = {}

\* variant of GetCertifiedPrograms: the listing comes back empty
GetCertifiedProgramsNone == {}

\* get_certified_programs(student): the uuids of the student's awarded
\* program credentials, as the Credentials service lists them now
GetCertifiedPrograms == certified

\* the task up to the POST loop, for the configuration cfg, the flag enabled,
\* and the results of the local lookups (lookup), of the credential
\* listing (listing) and of get_credentials_api_client (client)
AwardEntryResult(cfg, enabled, lookup, listing, client) ==
    LET n == req.retries
        r0 == [Locals0 EXCEPT !.pwc = cfg]
        r1 == [r0 EXCEPT !.flag = IF enabled THEN "enabled" ELSE "disabled"]
        r2 == [r1 EXCEPT !.completed_programs = completed]
        r3 == [r2 EXCEPT !.calls = {"list"}]
        r4 == [r3 EXCEPT !.existing = GetCertifiedPrograms,
                         !.uuids = NewProgramUuids(completed,
                                      AwardedAndSkipped(GetCertifiedPrograms,
                                                        cfg))]
        r5 == [r4 EXCEPT !.calls = {"list", "client"}]
    IN  IF IsAllSentinel(cfg)
           THEN [r0 EXCEPT !.end = "return", !.why = "programs_without_certificates"]
        ELSE IF ~enabled
           THEN [r1 EXCEPT !.end = "retry", !.why = "issuance_disabled",
                           !.cd = Countdown(n)]
        ELSE IF lookup = "error"
           THEN [r1 EXCEPT !.end = "retry", !.why = "lookup_failed",
                           !.cd = Countdown(n)]
        ELSE IF DoesNotExist(req.username)
           THEN [r1 EXCEPT !.end = "return", !.why = "invalid_username"]
        ELSE IF NothingCompleted(completed)
           THEN [r2 EXCEPT !.end = "return", !.why = "no_completed_programs"]
        ELSE IF listing # "ok"
           THEN [r3 EXCEPT !.end = "retry", !.why = "lookup_failed",
                           !.cd = Countdown(n)]
        ELSE IF r4.uuids = <<>>
           THEN [r4 EXCEPT !.end = "return", !.why = "not_eligible"]
        ELSE IF client = "error"
           THEN [r5 EXCEPT !.end = "retry", !.why = "no_client",
                           !.cd = Countdown(n)]
        ELSE r5

AwardEntry ==
    /\ status = "RUNNING"
    /\ req.task = AwardProgram
    /\ pc = "entry"
    /\ \E r \in {AwardEntryResult(cfg, IsLearnerIssuanceEnabled, lookup,
                                     listing, client) :
                     cfg \in PwcChoices,
                     lookup \in {"ok", "error"},
                     listing \in {"ok", "error"},
                     client \in {"ok", "error"}} :
         /\ SetLocals(r)
         /\ End(r)
    /\ UNCHANGED <<env, idx, failed, hist, paged, rest>>

\* variant of IsFailedAttempt: a 404 counts as a failed attempt
IsFailedAttemptNotFound(outcome) == outcome \in {"error", "not_found"}

\* variant of IsFailedAttempt: client errors count as failed attempts
IsFailedAttemptAnyError(outcome) == outcome \in {"error", "client_error"}

\* the except clauses of the loop body: which results of the POST put the
\* program on the failed list
IsFailedAttempt(outcome) == outcome = "error"

\* variant of IsRateLimited: a 429 answer is an ordinary client error
IsRateLimitedNever(outcome) == FALSE

\* the except clauses of the loop body: which results raise at once
IsRateLimited(outcome) == outcome = "rate_limited"

\* variant of HasFailedAttempts: the failed list is not looked at
FailedAttemptsDropped(attempts) == FALSE

\* if failed_program_certificate_award_attempts (..._revoke_attempts)
HasFailedAttempts(attempts) == attempts # <<>>

\* one iteration of "for program_uuid in new_program_uuids", and the code
\* after the loop when it was the last one
AwardPost ==
    /\ status = "RUNNING"
    /\ req.task = AwardProgram
    /\ pc = "loop"
    /\ idx <= Len(uuids)
    /\ \E outcome \in Outcomes :
         LET program_uuid == uuids[idx]
             nfailed == IF IsFailedAttempt(outcome)
                           THEN Append(failed, program_uuid) ELSE failed
         IN  /\ posts' = Append(posts, <<program_uuid, outcome>>)
             /\ calls' = calls \cup {"post"}
             /\ certified' = IF outcome = "ok" THEN certified \cup {program_uuid}
                             ELSE certified
             /\ IF IsRateLimited(outcome)
                   THEN /\ got429' = TRUE
                        /\ Retry(RateLimitCountdown, "rate_limited")
                        /\ UNCHANGED <<idx, failed>>
                   ELSE /\ failed' = nfailed
                        /\ idx' = idx + 1
                        /\ UNCHANGED got429
                        /\ IF idx < Len(uuids)
                              THEN UNCHANGED <<chain, pc, meter>>
                           ELSE IF HasFailedAttempts(nfailed)
                              THEN Retry(Countdown(req.retries), "failed_attempts")
                           ELSE Return("completed")
    /\ UNCHANGED <<completed, issuance_enabled, flag, pwc, certificate,
                   course_overview, completed_programs,
                   existing_program_uuids, uuids, hist, paged, rest>>

\* -------------------------------------------- revoke_program_certificates
\* inverted_programs.get(course_key): the programs that contain the course
\* run, in the order of the catalog (here from the last program to the first:
\* the list is not sorted by the task)
RECURSIVE InvertedPrograms(_, _)
InvertedPrograms(course_key, p) ==
    IF p = 0 THEN <<>>
    ELSE IF course_key \in ProgramCourseRuns(p)
            THEN <<p>> \o InvertedPrograms(course_key, p - 1)
         ELSE InvertedPrograms(course_key, p - 1)

\* variant of GetRevokableProgramUuids: no test of the existing certificates
AllCourseSpecificUuids(course_specific_programs, existing) ==
    course_specific_programs

\* get_revokable_program_uuids(course_specific_programs, student), existing
\* being the result of get_certified_programs(student)
GetRevokableProgramUuids(course_specific_programs, existing) ==
    SelectSeq(course_specific_programs, LAMBDA uuid : uuid \in existing)

\* the task up to the POST loop
RevokeEntryResult(enabled, user, lookup, listing, client) ==
    LET n == req.retries
        course_specific_programs == InvertedPrograms(req.course_key, NumPrograms)
        r1 == [Locals0 EXCEPT !.flag = IF enabled THEN "enabled" ELSE "disabled"]
        r3 == [r1 EXCEPT !.calls = {"list"}]
        r4 == [r3 EXCEPT !.existing = GetCertifiedPrograms,
                         !.uuids = GetRevokableProgramUuids(
                                       course_specific_programs,
                                       GetCertifiedPrograms)]
        r5 == [r4 EXCEPT !.calls = {"list", "client"}]
    IN  IF ~enabled
           THEN [r1 EXCEPT !.end = "retry", !.why = "issuance_disabled",
                           !.cd = Countdown(n)]
        ELSE IF user = "error"
           THEN [r1 EXCEPT !.end = "crash", !.why = "user_lookup_raised"]
        ELSE IF DoesNotExist(req.username)
           THEN [r1 EXCEPT !.end = "return", !.why = "invalid_username"]
        ELSE IF lookup = "error"
           THEN [r1 EXCEPT !.end = "retry", !.why = "lookup_failed",
                           !.cd = Countdown(n)]
        ELSE IF course_specific_programs = <<>>
           THEN [r1 EXCEPT !.end = "return", !.why = "no_engaged_programs"]
        ELSE IF listing # "ok"
           THEN [r3 EXCEPT !.end = "retry", !.why = "lookup_failed",
                           !.cd = Countdown(n)]
        ELSE IF r4.uuids = <<>>
           THEN [r4 EXCEPT !.end = "return", !.why = "nothing_to_revoke"]
        ELSE IF client = "error"
           THEN [r5 EXCEPT !.end = "retry", !.why = "no_client",
                           !.cd = Countdown(n)]
        ELSE r5

RevokeEntry ==
    /\ status = "RUNNING"
    /\ req.task = RevokeProgram
    /\ pc = "entry"
    /\ \E r \in {RevokeEntryResult(IsLearnerIssuanceEnabled, user, lookup,
                                      listing, client) :
                     user \in {"ok", "error"},
                     lookup \in {"ok", "error"},
                     listing \in {"ok", "error"},
                     client \in {"ok", "error"}} :
         /\ SetLocals(r)
         /\ End(r)
    /\ UNCHANGED <<env, idx, failed, hist, paged, rest>>

\* one iteration of "for program_uuid in program_uuids_to_revoke", and the
\* code after the loop when it was the last one
RevokePost ==
    /\ status = "RUNNING"
    /\ req.task = RevokeProgram
    /\ pc = "loop"
    /\ idx <= Len(uuids)
    /\ \E outcome \in Outcomes :
         LET program_uuid == uuids[idx]
             nfailed == IF IsFailedAttempt(outcome)
                           THEN Append(failed, program_uuid) ELSE failed
         IN  /\ posts' = Append(posts, <<program_uuid, outcome>>)
             /\ calls' = calls \cup {"post"}
             /\ certified' = IF outcome = "ok" THEN certified \ {program_uuid}
                             ELSE certified
             /\ IF IsRateLimited(outcome)
                   THEN /\ got429' = TRUE
                        /\ Retry(RateLimitCountdown, "rate_limited")
                        /\ UNCHANGED <<idx, failed>>
                   ELSE /\ failed' = nfailed
                        /\ idx' = idx + 1
                        /\ UNCHANGED got429
                        /\ IF idx < Len(uuids)
                              THEN UNCHANGED <<chain, pc, meter>>
                           ELSE IF HasFailedAttempts(nfailed)
                              THEN Retry(Countdown(req.retries), "failed_attempts")
                           ELSE Return("completed")
    /\ UNCHANGED <<completed, issuance_enabled, flag, pwc, certificate,
                   course_overview, completed_programs,
                   existing_program_uuids, uuids, hist, paged, rest>>

\* ------------------------------------------------ award_course_certificate
\* variant of IsCertificateRelevantMode: the mode is not looked at
AnyCertificateMode(cert) == cert # "missing"

\* certificate.mode in CourseMode.CERTIFICATE_RELEVANT_MODES
IsCertificateRelevantMode(cert) == cert = "relevant"

\* variant of PostRaised: only a transport failure is taken as a failure
PostRaisedOnTransportOnly(outcome) == outcome = "error"

\* the POST raised: "except Exception" catches every exception of the client,
\* HttpNotFoundError and HttpClientError (429 or not) included
PostRaised(outcome) == outcome # "ok"

\* cert: the result of GeneratedCertificate.eligible_certificates.get and of
\* the test of its mode; overview: of CourseOverview.get_from_id; client: of
\* get_credentials_api_client; outcome: of the POST; lookup "error": any other
\* exception raised by the local lookups inside the try
AwardCourseResult(enabled, lookup, cert, overview, client, outcome) ==
    LET n == req.retries
        r1 == [Locals0 EXCEPT !.flag = IF enabled THEN "enabled" ELSE "disabled"]
        r2 == [r1 EXCEPT !.certificate = cert]
        r3 == [r2 EXCEPT !.course_overview = overview]
        r4 == [r3 EXCEPT !.calls = {"client"}]
        r5 == [r3 EXCEPT !.calls = {"client", "post"},
                         !.posts = <<<<req.course_key, outcome>>>>,
                         !.got429 = (outcome = "rate_limited")]
    IN  IF ~enabled
           THEN [r1 EXCEPT !.end = "retry", !.why = "issuance_disabled",
                           !.cd = Countdown(n)]
        ELSE IF req.course_key = InvalidKey \/ lookup = "error"
           THEN [r1 EXCEPT !.end = "retry", !.why = "lookup_failed",
                           !.cd = Countdown(n)]
        ELSE IF DoesNotExist(req.username)
           THEN [r1 EXCEPT !.end = "return", !.why = "invalid_username"]
        ELSE IF cert = "missing"
           THEN [r2 EXCEPT !.end = "return", !.why = "no_certificate"]
        ELSE IF ~IsCertificateRelevantMode(cert)
           THEN [r2 EXCEPT !.end = "return", !.why = "irrelevant_mode"]
        ELSE IF overview = "missing"
           THEN [r3 EXCEPT !.end = "return", !.why = "no_course_overview"]
        ELSE IF client = "error"
           THEN [r4 EXCEPT !.end = "retry", !.why = "no_client",
                           !.cd = Countdown(n)]
        ELSE IF PostRaised(outcome)
           THEN [r5 EXCEPT !.end = "retry", !.why = "post_failed",
                           !.cd = Countdown(n)]
        ELSE [r5 EXCEPT !.end = "return", !.why = "completed"]

AwardCourseRun ==
    /\ status = "RUNNING"
    /\ req.task = AwardCourse
    /\ pc = "entry"
    /\ \E r \in {AwardCourseResult(IsLearnerIssuanceEnabled, lookup, cert,
                                      overview, client, outcome) :
                     lookup \in {"ok", "error"},
                     cert \in {"missing", "irrelevant_mode", "relevant"},
                     overview \in {"ok", "missing"}, client \in {"ok", "error"},
                     outcome \in Outcomes} :
         /\ SetLocals(r)
         /\ End(r)
    /\ UNCHANGED <<env, idx, failed, hist, paged, rest>>

\* ----------------------------------------------- send_grade_to_credentials
\* client: the result of get_credentials_api_client; outcome: of
\* credentials_client.grades.post
SendGradeResult(client, outcome) ==
    LET n == req.retries
        r4 == [Locals0 EXCEPT !.calls = {"client"}]
        r5 == [Locals0 EXCEPT !.calls = {"client", "post"},
                              !.posts = <<<<req.course_key, outcome>>>>,
                              !.got429 = (outcome = "rate_limited")]
    IN  IF req.course_key = InvalidKey
           THEN [Locals0 EXCEPT !.end = "crash", !.why = "invalid_key"]
        ELSE IF client = "error"
           THEN [r4 EXCEPT !.end = "retry", !.why = "no_client",
                           !.cd = Countdown(n)]
        ELSE IF PostRaised(outcome)
           THEN [r5 EXCEPT !.end = "retry", !.why = "post_failed",
                           !.cd = Countdown(n)]
        ELSE [r5 EXCEPT !.end = "return", !.why = "completed"]

SendGradeRun ==
    /\ status = "RUNNING"
    /\ req.task = SendGrade
    /\ pc = "entry"
    /\ \E r \in {SendGradeResult(client, outcome) :
                     client \in {"ok", "error"}, outcome \in Outcomes} :
         /\ SetLocals(r)
         /\ End(r)
    /\ UNCHANGED <<env, idx, failed, hist, paged, rest>>

\* -------------------------------------------------------------- paged_query
\* the items of a queryset of n rows
Queryset(n) == [i \in 1..n |-> 2 * i + 1]

Min(a, b) == IF a <= b THEN a ELSE b

\* variant of Pages: the division rounds down
PagesFloor(cnt, ps) == cnt \div ps

\* int(math.ceil(count / page_size))
Pages(cnt, ps) == (cnt + ps - 1) \div ps

\* variant of PageStart: the pages are counted from 1
PageStartFromOne(pg, ps) == (pg + 1) * ps

\* page_start = page * page_size
PageStart(pg, ps) == pg * ps

\* page_end = page_start + page_size
PageEnd(pg, ps) == PageStart(pg, ps) + ps

\* queryset[page_start:page_end]
Subquery(q, pg, ps) ==
    SubSeq(q, PageStart(pg, ps) + 1, Min(PageEnd(pg, ps), Len(q)))

\* variant of SleepsBefore: the first page is not told apart
SleepsBeforeEveryPage(d, pg) == d # 0

\* if delay and page
SleepsBefore(d, pg) == d # 0 /\ pg # 0

\* if index == count (in the handler of OperationalError)
AllKnownResultsProcessed(i, cnt) == i = cnt

\* count = queryset.count(); pages = ...; the for loop begins
PagedStart ==
    /\ gen = "start"
    /\ count' = Len(queryset)
    /\ pages' = Pages(Len(queryset), page_size)
    /\ page' = 0
    /\ gen' = IF Pages(Len(queryset), page_size) > 0 THEN "page" ELSE "done"
    /\ UNCHANGED <<queryset, delay, page_size, index, yielded, page_lens,
                   sleeps, errors, qlog, tasks, rest>>

\* the head of the loop body: the slice, the sleep, index = 0
PagedPage ==
    /\ gen = "page"
    /\ sleeps' = IF SleepsBefore(delay, page) THEN Append(sleeps, page) ELSE sleeps
    /\ index' = 0
    /\ gen' = "iter"
    /\ UNCHANGED <<queryset, delay, page_size, count, pages, page, yielded,
                   page_lens, errors, qlog, tasks, rest>>

\* the next page, or the end of the generator
NextPage ==
    /\ page' = page + 1
    /\ page_lens' = Append(page_lens, index)
    /\ gen' = IF page + 1 < pages THEN "page" ELSE "done"

\* subquery.iterator() gives an item: index += 1; yield page_start + index, item
PagedYield ==
    /\ gen = "iter"
    /\ index < Len(Subquery(queryset, page, page_size))
    /\ index' = index + 1
    /\ yielded' = Append(yielded,
                    <<PageStart(page, page_size) + index + 1,
                      Subquery(queryset, page, page_size)[index + 1]>>)
    /\ UNCHANGED <<queryset, delay, page_size, count, pages, page, gen,
                   page_lens, sleeps, errors, qlog, tasks, rest>>

\* subquery.iterator() is exhausted: the for loop goes on
PagedPageEnd ==
    /\ gen = "iter"
    /\ index = Len(Subquery(queryset, page, page_size))
    /\ NextPage
    /\ UNCHANGED <<queryset, delay, page_size, count, pages, index, yielded,
                   sleeps, errors, qlog, tasks, rest>>

\* variant of InTryBlock: the error has no handler
InTryBlockNever(g) == FALSE

\* the try of the loop body encloses the iteration of the page and nothing
\* else: queryset.count(), before the loop, is outside of it
InTryBlock(g) == g = "iter"

\* the datastore raises OperationalError: in subquery.iterator() it is caught
\* by "except OperationalError", which logs and goes on with the next page;
\* in queryset.count() it leaves the generator
PagedOperationalError ==
    /\ gen \in {"start", "iter"}
    /\ errors < MaxErrors
    /\ errors' = errors + 1
    /\ IF InTryBlock(gen)
          THEN /\ qlog' = Append(qlog, IF AllKnownResultsProcessed(index, count)
                                          THEN "info" ELSE "warning")
               /\ NextPage
          ELSE /\ gen' = "raised"
               /\ UNCHANGED <<qlog, page, page_lens>>
    /\ UNCHANGED <<queryset, delay, page_size, count, pages, index, yielded,
                   sleeps, tasks, rest>>

InitPaged ==
    /\ completed = {}
    /\ issuance_enabled = TRUE
    /\ metered = FALSE
    /\ NoTask
    /\ \E n \in 0..MaxItems, d \in {0, 1}, ps \in 1..MaxPageSize :
         NewGenerator(Queryset(n), d, ps, "start")
    /\ NoRest

NextPaged ==
    \/ PagedStart
    \/ PagedPage
    \/ PagedYield
    \/ PagedPageEnd
    \/ PagedOperationalError

SpecPaged == InitPaged /\ [][NextPaged]_vars

\* ------------------------------------------------ handle_notify_credentials
\* course runs with certificates and grades: run 1 is of org "edX" and in a
\* program, run 3 is of org "MITx" and in no program
NotifyCourseRuns == {1, 3}

\* course_id.org
OrgOf(course) == IF course = 1 THEN "edX" ELSE "MITx"

\* the values of options['site']: none given, two sites with a
\* SiteConfiguration, a site without one
Sites == {"", "edx.org", "mitx.mit.edu", "ghost"}

\* SiteConfiguration.objects.get(site__domain=site) raises DoesNotExist
NoSiteConfiguration(site) == site \notin {"edx.org", "mitx.mit.edu"}

\* site_config.has_org(org)
HasOrg(site, org) ==
    \/ site = "edx.org" /\ org = "edX"
    \/ site = "mitx.mit.edu" /\ org = "MITx"

\* variant of SkippedForSite: the site filter is not applied
SkippedForSiteNever(site, course) == FALSE

\* if site_config and not site_config.has_org(item.course_id.org): continue
SkippedForSite(site, course) == site # "" /\ ~HasOrg(site, OrgOf(course))

\* variant of IsPassingStatus: the status is not looked at
AnyStatusPasses(st) == TRUE

\* CertificateStatuses.is_passing_status(status)
IsPassingStatus(st) == st \in {"downloadable", "generating"}

\* INTERESTING_MODES = CourseMode.CERTIFICATE_RELEVANT_MODES
INTERESTING_MODES == {"verified", "professional"}

\* INTERESTING_STATUSES
INTERESTING_STATUSES == {"notpassing", "downloadable"}

\* variant of Uninteresting: skipped only when both are uninteresting
UninterestingBoth(mode, st) ==
    mode \notin INTERESTING_MODES /\ st \notin INTERESTING_STATUSES

\* mode not in INTERESTING_MODES or status not in INTERESTING_STATUSES
Uninteresting(mode, st) ==
    mode \notin INTERESTING_MODES \/ st \notin INTERESTING_STATUSES

\* variant of IsCourseRunInAProgram: every course run is taken to be in one
EveryCourseRunInAProgram(course) == TRUE

\* is_course_run_in_a_program(course_run_key)
IsCourseRunInAProgram(course) ==
    \E p \in Programs : course \in ProgramCourseRuns(p)

\* the GeneratedCertificate rows of a course run for the student
CertRows(course) ==
    {[course |-> course, mode |-> m[1], status |-> m[2]] :
        m \in {<<"verified", "downloadable">>, <<"verified", "notpassing">>,
               <<"audit", "downloadable">>, <<"verified", "unavailable">>}}

\* GeneratedCertificate.objects.get raised DoesNotExist / was not called
NoCert == [course |-> 0, mode |-> "None", status |-> "None"]
CertUnread == [course |-> 0, mode |-> "unread", status |-> "unread"]

\* the PersistentCourseGrade rows of a course run for the student; a row
\* may lack its letter grade
GradeRows(course) ==
    {[course |-> course, letter |-> l] : l \in {"A", "None"}}

\* querysets of the rows of NotifyCourseRuns modified in the window
Querysets(rows1, rows3) ==
    {<<>>} \cup {<<a>> : a \in rows1 \cup rows3}
           \cup {<<a, b>> : a \in rows1, b \in rows3}

\* send_grade_if_interesting(user, course_run_key, mode, status, letter_grade,
\* percent_grade) with the flag (enabled), is_learner_records_enabled_for_org
\* (records), the certificate row (dbcert) and the grade (dbgrade) as the
\* datastore gives them when asked: what was given, what was read and how
\* the call ended ("sent": send_grade_to_credentials.delay was called)
SendGradeIfInteresting(course, mode, st, letter, enabled, records, dbcert, dbgrade) ==
    LET lookup == mode = "None" \/ st = "None"
        m == IF lookup THEN dbcert.mode ELSE mode
        t == IF lookup THEN dbcert.status ELSE st
        g0 == [course |-> course, mode |-> mode, status |-> st,
               letter |-> letter, flag |-> enabled, records |-> "unread",
               cert |-> CertUnread, why |-> "issuance_disabled"]
        g1 == [g0 EXCEPT !.records = IF records THEN "enabled" ELSE "disabled",
                         !.why = "records_disabled"]
        g2 == [g1 EXCEPT !.cert = IF lookup THEN dbcert ELSE CertUnread,
                         !.why = "no_cert"]
    IN  IF ~enabled THEN g0
        ELSE IF ~records THEN g1
        ELSE IF lookup /\ dbcert = NoCert THEN g2
        ELSE IF Uninteresting(m, t) THEN [g2 EXCEPT !.why = "uninteresting"]
        ELSE IF ~IsCourseRunInAProgram(course)
           THEN [g2 EXCEPT !.why = "not_in_program"]
        ELSE IF letter = "None" /\ dbgrade = "None"
           THEN [g2 EXCEPT !.why = "no_grade"]
        ELSE [g2 EXCEPT !.why = "sent",
                        !.letter = IF letter = "None" THEN dbgrade ELSE letter]

\* variant of IsDryRun: the flag is not looked at
DryRunIgnored(opts) == FALSE

\* if options['dry_run']
IsDryRun(opts) == opts.dry_run

\* paged_query(queryset, delay, page_size) is called
CallPagedQuery(q, d, ps) ==
    /\ queryset' = q
    /\ delay' = d
    /\ page_size' = ps
    /\ gen' = "start"
    /\ count' = 0
    /\ pages' = 0
    /\ page' = 0
    /\ index' = 0
    /\ yielded' = <<>>
    /\ page_lens' = <<>>
    /\ sleeps' = <<>>
    /\ errors' = 0
    /\ qlog' = <<>>

\* handle_notify_credentials up to the call of log_dry_run or of
\* send_notifications (whose first loop calls paged_query(certs, ...))
NotifyEntry ==
    /\ phase = "entry"
    /\ IF options.site # "" /\ NoSiteConfiguration(options.site)
          THEN /\ nlog' = Append(nlog, "no_site_configuration")
               /\ phase' = "done"
               /\ UNCHANGED paged
          ELSE IF IsDryRun(options)
          THEN /\ nlog' = nlog \o <<"sending", "dry_run", "finished">>
               /\ phase' = "done"
               /\ UNCHANGED paged
          ELSE /\ nlog' = Append(nlog, "sending")
               /\ phase' = "certs"
               /\ CallPagedQuery(certs, options.delay, options.page_size)
    /\ UNCHANGED <<options, certs, grades, course_cert_info, dispatched,
                   graded, handled, tasks, race, refund, visible>>

\* the generator runs until its next yield or its end while the loop of
\* send_notifications waits for the next item
NotifyPaged ==
    /\ phase \in {"certs", "grades"}
    /\ handled = Len(yielded)
    /\ \/ PagedStart
       \/ PagedPage
       \/ PagedYield
       \/ PagedPageEnd

\* the body of the first loop of send_notifications for the item yielded
NotifyCert ==
    /\ phase = "certs"
    /\ handled < Len(yielded)
    /\ handled' = handled + 1
    /\ LET cert == yielded[handled + 1][2]
           changed_ev == [kind |-> "cert_changed", course |-> cert.course]
           awarded_ev == [kind |-> "cert_awarded", course |-> cert.course]
       IN  IF SkippedForSite(options.site, cert.course)
              THEN UNCHANGED <<course_cert_info, dispatched>>
              ELSE /\ course_cert_info' =
                        {c \in course_cert_info : c.course # cert.course}
                            \cup {cert}
                   /\ dispatched' =
                        IF options.notify_programs /\ IsPassingStatus(cert.status)
                           THEN dispatched \o <<changed_ev, awarded_ev>>
                           ELSE Append(dispatched, changed_ev)
    /\ UNCHANGED <<options, certs, grades, phase, graded, nlog, tasks, paged,
                   race, refund, visible>>

\* the first loop is over: the second one calls paged_query(grades, ...)
NotifyCertsDone ==
    /\ phase = "certs"
    /\ gen = "done"
    /\ handled = Len(yielded)
    /\ phase' = "grades"
    /\ handled' = 0
    /\ CallPagedQuery(grades, options.delay, options.page_size)
    /\ UNCHANGED <<options, certs, grades, course_cert_info, dispatched,
                   graded, nlog, tasks, race, refund, visible>>

\* the body of the second loop of send_notifications for the item yielded
NotifyGrade ==
    /\ phase = "grades"
    /\ handled < Len(yielded)
    /\ handled' = handled + 1
    /\ LET grade == yielded[handled + 1][2]
           info == {c \in course_cert_info : c.course = grade.course}
           mode == IF info = {} THEN "None" ELSE (CHOOSE c \in info : TRUE).mode
           st == IF info = {} THEN "None" ELSE (CHOOSE c \in info : TRUE).status
       IN  IF SkippedForSite(options.site, grade.course)
              THEN UNCHANGED <<dispatched, graded>>
              ELSE \E g \in {SendGradeIfInteresting(grade.course, mode, st,
                                  grade.letter, IsLearnerIssuanceEnabled,
                                  records, dbcert, dbgrade) :
                                 records \in BOOLEAN,
                                 dbcert \in CertRows(grade.course) \cup {NoCert},
                                 dbgrade \in {"A", "None"}} :
                     /\ graded' = Append(graded, g)
                     /\ dispatched' =
                          IF g.why = "sent"
                             THEN Append(dispatched,
                                         [kind |-> "grade", course |-> g.course])
                             ELSE dispatched
    /\ UNCHANGED <<options, certs, grades, phase, course_cert_info, nlog, tasks,
                   paged, race, refund, visible>>

\* the second loop is over: send_notifications returns
NotifyGradesDone ==
    /\ phase = "grades"
    /\ gen = "done"
    /\ handled = Len(yielded)
    /\ phase' = "done"
    /\ nlog' = Append(nlog, "finished")
    /\ UNCHANGED <<options, certs, grades, course_cert_info, dispatched,
                   graded, handled, tasks, paged, race, refund, visible>>

\* handle_notify_credentials(options, course_keys) is about to run, the
\* certificates and grades of the window being what the queries will fetch
InitNotify ==
    /\ completed = {}
    /\ issuance_enabled \in BOOLEAN
    /\ metered = FALSE
    /\ NoTask
    /\ NewGenerator(<<>>, 0, 1, "unused")
    /\ options \in [site : Sites, dry_run : BOOLEAN, notify_programs : BOOLEAN,
                     delay : {0}, page_size : {1, 2}]
    /\ certs \in Querysets(CertRows(1), CertRows(3))
    /\ grades \in Querysets(GradeRows(1), GradeRows(3))
    /\ phase = "entry"
    /\ course_cert_info = {}
    /\ dispatched = <<>>
    /\ graded = <<>>
    /\ handled = 0
    /\ nlog = <<>>
    /\ NoRace
    /\ NoRefund
    /\ NoVisible

NextNotify ==
    \/ NotifyEntry
    \/ NotifyPaged
    \/ NotifyCert
    \/ NotifyCertsDone
    \/ NotifyGrade
    \/ NotifyGradesDone

SpecNotify == InitNotify /\ [][NextNotify]_vars

\* ------------------------------------------------- concurrent invocations
\* three workers each run one invocation of award_program_certificates or of
\* revoke_program_certificates (course run 1) for the same student
Instances == 1..3

\* variant of MayRun: an invocation waits while another one is in its loop
MayRunExclusive(i) == \A j \in Instances \ {i} : inst[j].pc # "loop"

\* the tasks are plain shared tasks: no lock, no once-per-student guard, no
\* transaction around the listing and the POSTs; a worker runs a step of an
\* invocation whatever the other invocations do
MayRun(i) == TRUE

\* the task of invocation i from its start to the POST loop: the listing of
\* the certified programs and the list of programs to POST
RaceEntry(i) ==
    /\ inst[i].pc = "entry"
    /\ MayRun(i)
    /\ LET new_uuids ==
               IF inst[i].task = AwardProgram
                  THEN NewProgramUuids(completed,
                           AwardedAndSkipped(GetCertifiedPrograms, <<>>))
                  ELSE GetRevokableProgramUuids(
                           InvertedPrograms(1, NumPrograms), GetCertifiedPrograms)
       IN  inst' = [inst EXCEPT ![i] =
                       [@ EXCEPT !.existing = GetCertifiedPrograms,
                                 !.uuids = new_uuids,
                                 !.pc = IF new_uuids = <<>> THEN "done"
                                        ELSE "loop"]]
    /\ rposts' = Append(rposts, [by |-> i, task |-> inst[i].task, uuid |-> 0,
                                 outcome |-> "listed"])
    /\ UNCHANGED <<tasks, paged, notify, refund, visible>>

\* one turn of the POST loop of invocation i: the next program of its list
\* is awarded or revoked, or the POST fails
RacePost(i) ==
    /\ inst[i].pc = "loop"
    /\ MayRun(i)
    /\ LET program_uuid == inst[i].uuids[inst[i].idx]
       IN  \E outcome \in {"ok", "error"} :
             /\ rposts' = Append(rposts, [by |-> i, task |-> inst[i].task,
                                          uuid |-> program_uuid,
                                          outcome |-> outcome])
             /\ certified' =
                  IF outcome # "ok" THEN certified
                  ELSE IF inst[i].task = AwardProgram
                     THEN certified \cup {program_uuid}
                  ELSE certified \ {program_uuid}
    /\ inst' = [inst EXCEPT ![i] =
                   [@ EXCEPT !.idx = @ + 1,
                             !.pc = IF inst[i].idx = Len(inst[i].uuids)
                                       THEN "done" ELSE "loop"]]
    /\ UNCHANGED <<completed, issuance_enabled, chain, locals, hist, meter,
                   paged, notify, refund, visible>>

InitRace ==
    /\ completed = {1}
    /\ certified \in {{}, {1}}
    /\ issuance_enabled = TRUE
    /\ metered = FALSE
    /\ req = [task |-> "none", username |-> "alice", course_key |-> InvalidKey,
              retries |-> 0]
    /\ status = "IDLE"
    /\ runs = 0
    /\ countdown = 0
    /\ cause = "none"
    /\ pc = "done"
    /\ flag = "unread"
    /\ pwc = <<>>
    /\ certificate = "unread"
    /\ course_overview = "unread"
    /\ completed_programs = {}
    /\ existing_program_uuids = {}
    /\ uuids = <<>>
    /\ idx = 1
    /\ failed = <<>>
    /\ posts = <<>>
    /\ calls = {}
    /\ got429 = FALSE
    /\ changed = FALSE
    /\ prev = NoPrev
    /\ earlier = NoEarlier(FALSE)
    /\ waited = 0
    /\ limited = 0
    /\ NewGenerator(<<>>, 0, 1, "unused")
    /\ NoNotify
    /\ NoRefund
    /\ NoVisible
    /\ inst \in [Instances ->
                    [task : {AwardProgram, RevokeProgram}, pc : {"entry"},
                     existing : {{}}, uuids : {<<>>}, idx : {1}]]
    /\ rposts = <<>>

NextRace ==
    \E i \in Instances :
       \/ RaceEntry(i)
       \/ RacePost(i)

SpecRace == InitRace /\ [][NextRace]_vars

\* ------------------------------------------------------ enrollment refunds
\* CourseEnrollment.refundable() and refund_cutoff_date() of a verified
\* enrollment, as the refund tests exercise them. Dates are days.
\* refund windows of the configuration (the tests use 14 days and 1 day)
RefundWindows == {1, 3}

\* the order's date_placed as the e-commerce service and the order:date_placed
\* attribute hold it: a string in ECOMMERCE_DATE_FORMAT
DateString(d) == [text |-> d]

\* datetime.strptime(date_placed, ECOMMERCE_DATE_FORMAT)
Strptime(str) == str.text

Max(a, b) == IF a >= b THEN a ELSE b

\* variant of RefundWindowStart: the order placement date alone
RefundWindowStartOrder(placed, start) == placed

\* the start of the refund window: the later of the order placement date
\* and the course start
RefundWindowStart(placed, start) == Max(placed, start)

\* variant of NeedsOrder: the e-commerce service is asked at every call
NeedsOrderAlways(attr) == TRUE

\* the order has to be fetched: the enrollment has no order:date_placed
\* attribute
NeedsOrder(attr) == attr = NoAttribute

\* refund_cutoff_date() on the enrollment e in the world w: the date
\* returned (NoDate for None), whether the e-commerce service was called,
\* and the enrollment with the attribute the call saved
RefundCutoffDate(e, w) ==
    IF NeedsOrder(e.date_placed) /\ ~e.order_number
       THEN [cutoff |-> NoDate, fetched |-> FALSE, enrollment |-> e]
    ELSE LET fetch == NeedsOrder(e.date_placed)
             date_placed == IF fetch THEN DateString(w.order_date)
                            ELSE e.date_placed
         IN  [cutoff |-> RefundWindowStart(Strptime(date_placed),
                                           w.course_start) + w.refund_window,
              fetched |-> fetch,
              enrollment |-> [e EXCEPT !.date_placed = date_placed]]

\* variant of HasCertificate: a certificate does not matter
HasCertificateNever(w, certs_for) == FALSE

\* the student already has a certificate for the course: looked up in
\* GeneratedCertificate, or taken from user_already_has_certs_for when the
\* caller passes it
HasCertificate(w, certs_for) ==
    IF certs_for = NotGiven THEN w.has_cert ELSE 1 \in certs_for

\* variant of CutoffPassed: the cutoff is not looked at
CutoffPassedNever(now, cutoff) == FALSE

\* the refund cutoff date is over
CutoffPassed(now, cutoff) == now > cutoff

\* refundable(user_already_has_certs_for) on the enrollment e in the world
\* w: the value returned and what the call of refund_cutoff_date did, if
\* made. An expired verified mode still counts as the enrollment's mode
Refundable(e, w, certs_for) ==
    LET none == [cutoff |-> NoDate, fetched |-> FALSE, enrollment |-> e]
        r == RefundCutoffDate(e, w)
    IN  IF e.can_refund # "None" THEN [value |-> TRUE, rcd |-> none]
        ELSE IF HasCertificate(w, certs_for) THEN [value |-> FALSE, rcd |-> none]
        ELSE IF r.cutoff = NoDate THEN [value |-> FALSE, rcd |-> r]
        ELSE IF CutoffPassed(w.now, r.cutoff) THEN [value |-> FALSE, rcd |-> r]
        ELSE [value |-> TRUE, rcd |-> r]

\* what a call leaves behind: the answer with the state it was given in
\* (cutoff: the refund cutoff date of the enrollment at the call)
Answer(call, value, fetched, certs_for) ==
    [call |-> call, value |-> value,
     cutoff |-> RefundCutoffDate(enrollment, world).cutoff,
     now |-> world.now, cert |-> world.has_cert,
     can_refund |-> enrollment.can_refund, window |-> world.refund_window,
     fetched |-> fetched, cached |-> enrollment.date_placed # NoAttribute,
     order_number |-> enrollment.order_number,
     expired |-> world.mode_expired, certs_for |-> certs_for,
     before |-> IF answer.call = "refundable" THEN answer.value
                ELSE answer.before]

\* enrollment.refundable() or
\* enrollment.refundable(user_already_has_certs_for=course_ids_with_certs_for_user(user))
CallRefundable ==
    /\ \E certs_for \in {NotGiven, IF world.has_cert THEN {1} ELSE {}} :
         LET r == Refundable(enrollment, world, certs_for)
         IN  /\ answer' = Answer("refundable",
                                 IF r.value THEN "True" ELSE "False",
                                 r.rcd.fetched,
                                 IF certs_for = NotGiven THEN "lookup"
                                 ELSE "passed")
             /\ enrollment' = r.rcd.enrollment
             /\ ecommerce_calls' = ecommerce_calls
                                     + (IF r.rcd.fetched THEN 1 ELSE 0)
    /\ UNCHANGED <<world, tasks, paged, notify, race, visible>>

\* enrollment.refund_cutoff_date()
CallRefundCutoffDate ==
    /\ LET r == RefundCutoffDate(enrollment, world)
       IN  /\ answer' = Answer("refund_cutoff_date",
                               IF r.cutoff = NoDate THEN "None" ELSE "date",
                               r.fetched, "none")
           /\ enrollment' = r.enrollment
           /\ ecommerce_calls' = ecommerce_calls + (IF r.fetched THEN 1 ELSE 0)
    /\ UNCHANGED <<world, tasks, paged, notify, race, visible>>

\* a day passes
Tick ==
    /\ world.now < MaxDay
    /\ world' = [world EXCEPT !.now = @ + 1]
    /\ UNCHANGED <<enrollment, ecommerce_calls, answer, tasks, paged, notify,
                   race, visible>>

\* GeneratedCertificateFactory.create(user, course_id, downloadable, verified)
GenerateCertificate ==
    /\ ~world.has_cert
    /\ world' = [world EXCEPT !.has_cert = TRUE]
    /\ UNCHANGED <<enrollment, ecommerce_calls, answer, tasks, paged, notify,
                   race, visible>>

\* enrollment.can_refund = True
SetCanRefund ==
    /\ enrollment.can_refund = "None"
    /\ enrollment' = [enrollment EXCEPT !.can_refund = "True"]
    /\ UNCHANGED <<world, ecommerce_calls, answer, tasks, paged, notify, race, visible>>

\* verified_mode.expiration_datetime is set to a date in the past
ExpireMode ==
    /\ ~world.mode_expired
    /\ world' = [world EXCEPT !.mode_expired = TRUE]
    /\ UNCHANGED <<enrollment, ecommerce_calls, answer, tasks, paged, notify,
                   race, visible>>

\* EnrollmentRefundConfiguration: another refund window is configured
ChangeRefundWindow ==
    /\ \E days \in RefundWindows \ {world.refund_window} :
         world' = [world EXCEPT !.refund_window = days]
    /\ UNCHANGED <<enrollment, ecommerce_calls, answer, tasks, paged, notify,
                   race, visible>>

\* a verified enrollment on day 0: with or without the order-number
\* attribute, with or without an order:date_placed attribute (the order's
\* date), the order placed and the course starting on day 1 or 2
InitRefund ==
    /\ completed = {}
    /\ issuance_enabled = TRUE
    /\ metered = FALSE
    /\ NoTask
    /\ NewGenerator(<<>>, 0, 1, "unused")
    /\ NoNotify
    /\ NoRace
    /\ NoVisible
    /\ world \in [now : {0}, order_date : {1, 2}, course_start : {1, 2},
                   refund_window : RefundWindows, has_cert : {FALSE},
                   mode_expired : {FALSE}]
    /\ enrollment \in [order_number : BOOLEAN,
                        date_placed : {NoAttribute, DateString(world.order_date)},
                        can_refund : {"None"}]
    /\ ecommerce_calls = 0
    /\ answer = NoAnswer

NextRefund ==
    \/ CallRefundable
    \/ CallRefundCutoffDate
    \/ Tick
    \/ GenerateCertificate
    \/ SetCanRefund
    \/ ExpireMode
    \/ ChangeRefundWindow

SpecRefund == InitRefund /\ [][NextRefund]_vars

\* ------------------------------------------------------------ specification
Next ==
    \/ Enqueue
    \/ Start
    \/ ChangeCompleted
    \/ ToggleIssuance
    \/ AwardEntry
    \/ AwardPost
    \/ RevokeEntry
    \/ RevokePost
    \/ AwardCourseRun
    \/ SendGradeRun

Spec == Init /\ [][Next]_vars

\* one chain for the student, on the queue: award_program_certificates with
\* program 1 completed and not certified, or revoke_program_certificates for
\* course run 1 with program 1 certified
BackoffRequests ==
    {r \in Requests : /\ r.task \in {AwardProgram, RevokeProgram}
                      /\ r.username \in Users
                      /\ r.course_key = IF r.task = RevokeProgram THEN 1
                                        ELSE InvalidKey}

\* a chain's first message waits in the queue
PendingChain ==
    /\ status = "PENDING"
    /\ runs = 0
    /\ countdown = 0
    /\ cause = "none"
    /\ pc = "entry"
    /\ flag = "unread"
    /\ pwc = <<>>
    /\ certificate = "unread"
    /\ course_overview = "unread"
    /\ completed_programs = {}
    /\ existing_program_uuids = {}
    /\ uuids = <<>>
    /\ idx = 1
    /\ failed = <<>>
    /\ posts = <<>>
    /\ calls = {}
    /\ got429 = FALSE
    /\ changed = FALSE
    /\ prev = NoPrev
    /\ waited = 0
    /\ limited = 0

InitBackoff ==
    /\ completed = {1}
    /\ issuance_enabled = TRUE
    /\ metered = TRUE
    /\ earlier = NoEarlier(FALSE)
    /\ \E r \in BackoffRequests :
         /\ req = r
         /\ certified = IF r.task = RevokeProgram THEN {1} ELSE {}
    /\ PendingChain
    /\ NewGenerator(<<>>, 0, 1, "unused")
    /\ NoRest

NextBackoff ==
    \/ Start
    \/ AwardEntry
    \/ AwardPost
    \/ RevokeEntry
    \/ RevokePost

SpecBackoff == InitBackoff /\ [][NextBackoff]_vars

\* ----------------------------------- one award chain with recorded attempts
\* award_program_certificates.delay("alice") with the attempts of the chain
\* recorded in earlier; the completed set may change between two attempts.
\* The chain's first nine attempts found issuance disabled and read nothing
\* else; the flag is enabled since, and the tenth attempt is about to run
InitRetry ==
    /\ completed \in SUBSET Programs
    /\ certified = {}
    /\ issuance_enabled = TRUE
    /\ metered = FALSE
    /\ earlier = NoEarlier(TRUE)
    /\ req = [task |-> AwardProgram, username |-> "alice",
              course_key |-> InvalidKey, retries |-> 9]
    /\ status = "RETRY_SCHEDULED"
    /\ runs = 9
    /\ countdown = Countdown(8)
    /\ cause = "issuance_disabled"
    /\ pc = "done"
    /\ flag = "disabled"
    /\ pwc = <<>>
    /\ certificate = "unread"
    /\ course_overview = "unread"
    /\ completed_programs = {}
    /\ existing_program_uuids = {}
    /\ uuids = <<>>
    /\ idx = 1
    /\ failed = <<>>
    /\ posts = <<>>
    /\ calls = {}
    /\ got429 = FALSE
    /\ changed = FALSE
    /\ prev = NoPrev
    /\ waited = 0
    /\ limited = 0
    /\ NewGenerator(<<>>, 0, 1, "unused")
    /\ NoRest

NextRetry ==
    \/ Start
    \/ ChangeCompleted
    \/ AwardEntry
    \/ AwardPost

SpecRetry == InitRetry /\ [][NextRetry]_vars

\* --------------------------------------------- one chain under a fair worker
\* any task's first message waits in the queue; the worker takes a waiting
\* message once its countdown is over (Start) and a running invocation runs
\* on to its end; the flag may be switched at any time a message waits, the
\* datastore and the Credentials client may fail at every call
InitFair ==
    /\ completed \in SUBSET Programs
    /\ certified \in {{}, {1}}
    /\ issuance_enabled \in BOOLEAN
    /\ metered = FALSE
    /\ earlier = NoEarlier(FALSE)
    /\ req \in Requests
    /\ PendingChain
    /\ NewGenerator(<<>>, 0, 1, "unused")
    /\ NoRest

\* a step of the running invocation
Invocation ==
    \/ AwardEntry
    \/ AwardPost
    \/ RevokeEntry
    \/ RevokePost
    \/ AwardCourseRun
    \/ SendGradeRun

NextFair ==
    \/ Start
    \/ ToggleIssuance
    \/ Invocation

SpecFair ==
    InitFair /\ [][NextFair]_vars /\ WF_vars(Start) /\ WF_vars(Invocation)

\* ------------------------ update_certificate_visible_date_on_course_update
\* task names
UpdateVisibleDate == "update_certificate_visible_date_on_course_update"
UpdateConfiguration ==
    "update_credentials_course_certificate_configuration_available_date"

\* the users that may hold a certificate
CertificateHolders == {"alice", "bob"}

\* the values of certificate_available_date, a date in its string form
AvailableDates == {1, 2}

\* GeneratedCertificate.eligible_available_certificates
\*     .filter(course_id=course_key).values_list('user__username', flat=True)
UsersWithCertificatesInCourse(course_key) ==
    {c[1] : c \in {e \in eligible_available_certificates : e[2] = course_key}}

\* the orders in which the datastore may give the rows of a set
Orders(S) ==
    {q \in [1..Cardinality(S) -> S] :
        \A i, j \in 1..Cardinality(S) : q[i] = q[j] => i = j}

\* variant of DelayedMessages: the course certificate configuration is not
\* updated
DelayedAwardsOnly(course_key, date, users) ==
    [i \in 1..Len(users) |->
        [task |-> AwardCourse, username |-> users[i], course_key |-> course_key,
         certificate_available_date |-> date]]

\* update_credentials_course_certificate_configuration_available_date.delay(
\* str(course_key), certificate_available_date), then for each user
\* award_course_certificate.delay(user, str(course_key),
\* certificate_available_date=certificate_available_date)
DelayedMessages(course_key, date, users) ==
    <<[task |-> UpdateConfiguration, course_key |-> course_key,
       certificate_available_date |-> date]>>
    \o [i \in 1..Len(users) |->
          [task |-> AwardCourse, username |-> users[i],
           course_key |-> course_key, certificate_available_date |-> date]]

\* the task, from the test of the flag to its end
UpdateVisibleDateRun ==
    /\ status = "RUNNING"
    /\ req.task = UpdateVisibleDate
    /\ pc = "entry"
    /\ flag' = IF IsLearnerIssuanceEnabled THEN "enabled" ELSE "disabled"
    /\ IF ~IsLearnerIssuanceEnabled
          THEN /\ Retry(Countdown(req.retries), "issuance_disabled")
               /\ UNCHANGED delayed
          ELSE /\ \E users \in Orders(UsersWithCertificatesInCourse(req.course_key)) :
                    delayed' = delayed \o DelayedMessages(req.course_key,
                                              certificate_available_date, users)
               /\ Return("updated")
    /\ UNCHANGED <<env, pwc, certificate, course_overview, completed_programs,
                   existing_program_uuids, uuids, idx, failed, posts, calls,
                   got429, hist, paged, notify, race, refund,
                   eligible_available_certificates, certificate_available_date>>

\* a certificate of the course becomes eligible and available, or ceases to
\* be, while the task's message waits in the queue
ChangeCertificates ==
    /\ status \in {"PENDING", "RETRY_SCHEDULED"}
    /\ \E c \in CertificateHolders \X CourseRuns :
         eligible_available_certificates' =
            IF c \in eligible_available_certificates
               THEN eligible_available_certificates \ {c}
               ELSE eligible_available_certificates \cup {c}
    /\ UNCHANGED <<tasks, paged, notify, race, refund,
                   certificate_available_date, delayed>>

\* update_certificate_visible_date_on_course_update.delay(course_key,
\* certificate_available_date) was called: the message waits in the queue.
\* The task takes no username
InitVisibleDate ==
    /\ completed = {}
    /\ certified = {}
    /\ issuance_enabled \in BOOLEAN
    /\ metered = FALSE
    /\ earlier = NoEarlier(FALSE)
    /\ \E k \in CourseRuns :
         req = [task |-> UpdateVisibleDate, username |-> "", course_key |-> k,
                retries |-> 0]
    /\ PendingChain
    /\ NewGenerator(<<>>, 0, 1, "unused")
    /\ NoNotify
    /\ NoRace
    /\ NoRefund
    /\ eligible_available_certificates \in SUBSET (CertificateHolders \X CourseRuns)
    /\ certificate_available_date \in AvailableDates
    /\ delayed = <<>>

NextVisibleDate ==
    \/ Start
    \/ ToggleIssuance
    \/ ChangeCertificates
    \/ UpdateVisibleDateRun

SpecVisibleDate == InitVisibleDate /\ [][NextVisibleDate]_vars

TypeOK ==
    /\ status \in {"IDLE", "PENDING", "RUNNING", "SUCCEEDED", "RETRY_SCHEDULED", "FAILED"}
    /\ req.retries \in 0..MAX_RETRIES
    /\ certified \subseteq Programs
    /\ completed \subseteq Programs

\* ================================================================== claims
RetryCauses ==
    {"issuance_disabled", "lookup_failed", "no_client", "rate_limited",
     "failed_attempts", "post_failed"}

\* the invocation ended by calling self.retry
EndedInRetry ==
    /\ pc = "done"
    /\ status \in {"RETRY_SCHEDULED", "FAILED"}
    /\ cause \in RetryCauses

\* the attempt number of the invocation that ended
EndedAttempt ==
    IF status = "RETRY_SCHEDULED" THEN req.retries - 1 ELSE req.retries

RECURSIVE Pow2(_)
Pow2(n) == IF n = 0 THEN 1 ELSE 2 * Pow2(n - 1)

Attempted == {posts[i][1] : i \in 1..Len(posts)}

\* the last POST of an award/revoke loop was answered 429
RateLimitedInLoop ==
    /\ req.task \in {AwardProgram, RevokeProgram}
    /\ posts # <<>>
    /\ posts[Len(posts)][2] = "rate_limited"

C2_FailedAfter11 ==
    /\ runs <= MAX_RETRIES
    /\ (EndedInRetry /\ runs = MAX_RETRIES) => status = "FAILED"

\* C2 amended: a chain ends as FAILED by exhaustion exactly at its 12th
\* consecutive retryable failure (the first run and MAX_RETRIES retries); the
\* 11th failure still schedules a retry, and there is no 13th execution.
C2_FailedAfter12 ==
    /\ runs <= MAX_RETRIES + 1
    /\ EndedInRetry => (status = "FAILED" <=> runs = MAX_RETRIES + 1)
    /\ status = "FAILED" => ~ENABLED Start

C2_Witness ==
    /\ status = "FAILED"
    /\ cause \in RetryCauses
    /\ runs = 12
    /\ req.retries = 11

\* C3: the runner moves PENDING -> RUNNING -> {SUCCEEDED, RETRY_SCHEDULED,
\* FAILED}; a retryable failure at attempt n < 11 re-enqueues the task with
\* attempt n + 1, at n >= 11 it ends the chain as FAILED; within a chain the
\* attempt number never decreases, never skips a value, never exceeds 11.
C3_Step ==
    /\ req.retries <= 11
    /\ status' # status =>
         <<status, status'>> \in
            {<<"IDLE", "PENDING">>, <<"SUCCEEDED", "PENDING">>,
             <<"FAILED", "PENDING">>, <<"PENDING", "RUNNING">>,
             <<"RETRY_SCHEDULED", "RUNNING">>, <<"RUNNING", "SUCCEEDED">>,
             <<"RUNNING", "RETRY_SCHEDULED">>, <<"RUNNING", "FAILED">>}
    /\ (status = "RUNNING" /\ status' # "RUNNING" /\ cause' \in RetryCauses) =>
         IF req.retries < 11
            THEN status' = "RETRY_SCHEDULED" /\ req'.retries = req.retries + 1
            ELSE status' = "FAILED" /\ req'.retries = req.retries
    /\ status' = "RETRY_SCHEDULED" => status \in {"RUNNING", "RETRY_SCHEDULED"}
    /\ status' = "PENDING" => req'.retries = 0
    /\ (status' # "PENDING" /\ status' # "RETRY_SCHEDULED") =>
         req'.retries = req.retries
    /\ (status = "RETRY_SCHEDULED" /\ status' = "RETRY_SCHEDULED") =>
         req'.retries = req.retries

\* C3: every step of the task runner is a step of that state machine
C3_Runner == [][C3_Step]_vars

\* the failure at attempt 10 re-enqueued the task with attempt 11
C3_Witness ==
    /\ status = "RETRY_SCHEDULED"
    /\ req.retries = 11
    /\ runs = 11

C5_SecondPostsNothing ==
    (req.task = AwardProgram /\ prev.again /\ prev.tried # {}) => posts = <<>>

\* C5 amended: the second of two award invocations in a row for a student
\* whose completed set did not change issues no POST for a program whose POST
\* succeeded in the first invocation; a program whose POST ended in
\* not-found, a client error, a rate limit or a transport failure, or was not
\* attempted, is POSTed again by the second invocation.
C5_NoRepostOfAwarded ==
    (req.task = AwardProgram /\ prev.again) => Attempted \cap prev.ok = {}

\* the first invocation awarded program 1 and failed on program 2; the second
\* POSTs program 2 alone
C5_Witness ==
    /\ req.task = AwardProgram
    /\ prev.again
    /\ prev.tried = {1, 2}
    /\ prev.ok = {1}
    /\ Attempted = {2}
    /\ pc = "done"

\* the least k with k * ps >= n
CeilDiv(n, ps) == CHOOSE k \in 0..n : k * ps >= n /\ (k = 0 \/ (k - 1) * ps < n)

\* C6: with no datastore error, paged_query over N unchanging items with page
\* size P yields the pairs <<1, item 1>>, ..., <<N, item N>> in this order, in
\* ceil(N/P) pages, each of P items except possibly the last; 205 items with
\* page size 100 give pages of 100, 100 and 5.
C6_PagedQuery ==
    errors = 0 =>
        LET n == Len(queryset)
        IN  /\ \A i \in 1..Len(yielded) : yielded[i] = <<i, queryset[i]>>
            /\ gen = "done" =>
                 /\ Len(yielded) = n
                 /\ Len(page_lens) = CeilDiv(n, page_size)
                 /\ \A k \in 1..Len(page_lens) :
                      page_lens[k] = IF k < Len(page_lens) THEN page_size
                                     ELSE n - (k - 1) * page_size
            /\ Pages(205, 100) = 3
            /\ [k \in 1..3 |-> Len(Subquery(Queryset(205), k - 1, 100))]
                  = <<100, 100, 5>>

\* 5 items with page size 2: pages of 2, 2 and 1
C6_Witness ==
    /\ gen = "done"
    /\ errors = 0
    /\ Len(queryset) = 5
    /\ page_size = 2
    /\ page_lens = <<2, 2, 1>>
    /\ Len(yielded) = 5

\* the programs of the catalog that contain the course run
ProgramsWith(course_key) == {p \in Programs : course_key \in ProgramCourseRuns(p)}

\* C7: revoke_program_certificates(student, C) POSTs a revoke only for
\* programs that contain C and are certified when the task lists the
\* student's credentials, each at most once, and an invocation whose loop ran
\* to its end has POSTed a revoke for every one of them.
C7_RevokeExactly ==
    req.task = RevokeProgram =>
        LET target == ProgramsWith(req.course_key) \cap (certified \cup OkPosts)
        IN  /\ Attempted \subseteq target
            /\ Cardinality(Attempted) = Len(posts)
            /\ (pc = "done" /\ (cause = "failed_attempts"
                                \/ (status = "SUCCEEDED" /\ req.username \in Users)))
                 => Attempted = target

\* certified in programs 1 and 2, course run 2 is in program 2 alone: only
\* program 2 was revoked
C7_Witness ==
    /\ req.task = RevokeProgram
    /\ req.course_key = 2
    /\ status = "SUCCEEDED"
    /\ existing_program_uuids = {1, 2}
    /\ posts = <<<<2, "ok">>>>
    /\ certified = {1}

\* C8: award_program_certificates attempts a POST only for programs that are
\* completed, not in the credential listing the invocation read, and not in
\* programs_without_certificates.
C8_PostsSubset ==
    req.task = AwardProgram =>
        /\ Attempted \subseteq
              (completed_programs \ (existing_program_uuids \cup Range(pwc)))
        /\ (posts # <<>> /\ ~changed) => completed_programs = completed
        /\ posts # <<>> => existing_program_uuids = certified \ OkPosts

\* programs 1 and 2 completed, program 1 excluded by configuration
C8_Witness ==
    /\ req.task = AwardProgram
    /\ completed_programs = {1, 2}
    /\ pwc = <<1, AllLower>>
    /\ posts = <<<<2, "ok">>>>
    /\ status = "SUCCEEDED"

\* C9: the POSTs of one invocation of award_program_certificates go through
\* the programs to award in ascending order of UUID, each at most once: the
\* i-th POST is for the i-th smallest of them.
C9_SortedOrder ==
    req.task = AwardProgram =>
        LET target == completed_programs \ (existing_program_uuids \cup Range(pwc))
        IN  \A i \in 1..Len(posts) :
              /\ posts[i][1] \in target
              /\ Cardinality({q \in target : q <= posts[i][1]}) = i

C9_Witness ==
    /\ req.task = AwardProgram
    /\ Len(posts) = 2
    /\ posts[1][1] = 1
    /\ posts[2][1] = 2
    /\ pc = "done"

\* C10: in the award and revoke loops a NotFoundError or an ordinary client
\* error on a program does not put it on the failed list and does not stop the
\* loop (the next program, if any, is attempted); an invocation in which
\* these are the only errors ends SUCCEEDED with no retry.
C10_SoftErrors ==
    req.task \in {AwardProgram, RevokeProgram} =>
        /\ \A i \in 1..Len(posts) :
             posts[i][2] \in {"not_found", "client_error"} =>
                /\ posts[i][1] \notin Range(failed)
                /\ i < Len(uuids) =>
                      \/ Len(posts) > i
                      \/ status = "RUNNING" /\ pc = "loop" /\ idx = i + 1
        /\ (pc = "done" /\ posts # <<>>
            /\ \A i \in 1..Len(posts) : posts[i][2] \in {"ok", "not_found", "client_error"})
             => status = "SUCCEEDED" /\ failed = <<>> /\ countdown = 0

C10_Witness ==
    /\ req.task = AwardProgram
    /\ posts = <<<<1, "not_found">>, <<2, "client_error">>>>
    /\ failed = <<>>
    /\ status = "SUCCEEDED"

\* the outcomes of the POSTs of the invocation
PostOutcomes == {posts[i][2] : i \in 1..Len(posts)}

Reconciliation == {AwardProgram, RevokeProgram, AwardCourse}

Loops == {AwardProgram, RevokeProgram}

\* C11 as stated: in award_program_certificates, revoke_program_certificates
\* and award_course_certificate, an invocation in which a POST ended in an
\* ordinary client error (4xx other than 404 and 429) or in a transport
\* failure ends by scheduling a retry with countdown 2^n (by FAILED when no
\* attempt remains).
C11_EveryClientErrorRetried ==
    (req.task \in Reconciliation /\ pc = "done"
     /\ PostOutcomes \cap {"client_error", "error"} # {}) =>
        /\ EndedInRetry
        /\ status = "RETRY_SCHEDULED" => countdown = Pow2(EndedAttempt)

\* C11 amended: a transport failure of a POST makes each of the three tasks
\* end in a retry (FAILED when the attempt number is MAX_RETRIES); the
\* countdown is 2^n, except 60 when a later POST of the same award or revoke
\* loop was answered 429. An ordinary client error is retried, with 2^n, by
\* award_course_certificate alone: in the award and revoke loops it is logged
\* and causes no retry, so that an invocation whose POSTs met nothing worse
\* ends SUCCEEDED.
C11_TransportFailureRetried ==
    (req.task \in Reconciliation /\ pc = "done") =>
        /\ (req.task = AwardCourse
            /\ PostOutcomes \cap {"client_error", "error"} # {}) =>
               /\ EndedInRetry
               /\ countdown = Pow2(EndedAttempt)
               /\ status = "FAILED" <=> runs = MAX_RETRIES + 1
        /\ (req.task \in Loops /\ "error" \in PostOutcomes) =>
               /\ EndedInRetry
               /\ countdown = IF RateLimitedInLoop THEN 60 ELSE Pow2(EndedAttempt)
               /\ status = "FAILED" <=> runs = MAX_RETRIES + 1
        /\ (req.task \in Loops /\ posts # <<>>
            /\ PostOutcomes \subseteq {"ok", "not_found", "client_error"}) =>
               status = "SUCCEEDED"

\* award_course_certificate met a client error at attempt 2 and retries in 4 s
C11_Witness ==
    /\ req.task = AwardCourse
    /\ posts = <<<<1, "client_error">>>>
    /\ status = "RETRY_SCHEDULED"
    /\ req.retries = 3
    /\ countdown = 4

\* C12 as stated: in none of the three reconciliation tasks does a 404 answer
\* to a POST cause a retry: an invocation whose POSTs met nothing but
\* successes and 404 answers ends SUCCEEDED.
C12_NotFoundNeverRetried ==
    (req.task \in Reconciliation /\ pc = "done"
     /\ "not_found" \in PostOutcomes
     /\ PostOutcomes \subseteq {"ok", "not_found"}) =>
        status = "SUCCEEDED" /\ countdown = 0

\* C12 amended: in the award and revoke loops a 404 answer is logged, the
\* program is skipped (it is not put on the failed list) and no retry is
\* scheduled because of it; award_course_certificate has no handler for it:
\* a 404 answer to its POST is retried with countdown 2^n like any other
\* failure.
C12_NotFoundSkippedInLoops ==
    (req.task \in Reconciliation /\ pc = "done"
     /\ "not_found" \in PostOutcomes) =>
        /\ req.task \in Loops =>
              /\ \A i \in 1..Len(posts) :
                    posts[i][2] = "not_found" => posts[i][1] \notin Range(failed)
              /\ PostOutcomes \subseteq {"ok", "not_found"} =>
                    status = "SUCCEEDED" /\ countdown = 0
        /\ req.task = AwardCourse =>
              /\ EndedInRetry
              /\ cause = "post_failed"
              /\ countdown = Pow2(EndedAttempt)

\* the revoke of program 2 was answered 404, program 1 was revoked after it
C12_Witness ==
    /\ req.task = RevokeProgram
    /\ posts = <<<<2, "not_found">>, <<1, "ok">>>>
    /\ failed = <<>>
    /\ status = "SUCCEEDED"

\* the programs whose POST ended in a transport failure, in the order of the
\* POSTs
FailedPosts ==
    LET e == SelectSeq(posts, LAMBDA q : q[2] = "error")
    IN  [i \in 1..Len(e) |-> e[i][1]]

\* C13 as stated: in the award and revoke loops a POST that failed, whatever
\* the failure, does not stop the loop (every program of the list is
\* attempted), is recorded on the failed list, and keeps the invocation from
\* ending SUCCEEDED.
C13_NoFailureDropped ==
    (req.task \in Loops /\ pc = "done" /\ PostOutcomes \ {"ok"} # {}) =>
        /\ Len(posts) = Len(uuids)
        /\ \A i \in 1..Len(posts) :
              posts[i][2] # "ok" => posts[i][1] \in Range(failed)
        /\ status # "SUCCEEDED"

\* C13 amended: in the award and revoke loops a transport failure on one
\* program does not stop the loop: the program is recorded on the failed
\* list and the next one is attempted; the loop ends early only when a POST
\* is answered 429, which retries at once. After a loop that ran to its end
\* one retry is scheduled for the whole task exactly when the failed list is
\* not empty, and an invocation in which a POST met a transport failure never
\* ends SUCCEEDED. A 404 answer and an ordinary client error are logged and
\* not recorded: alone they leave the invocation SUCCEEDED.
C13_TransportFailuresAccumulated ==
    req.task \in Loops =>
        /\ failed = FailedPosts
        /\ \A i \in 1..Len(posts) :
              (posts[i][2] = "error" /\ i < Len(uuids)) =>
                 \/ Len(posts) > i
                 \/ status = "RUNNING" /\ pc = "loop" /\ idx = i + 1
        /\ (pc = "done" /\ posts # <<>>) =>
              IF RateLimitedInLoop
                 THEN cause = "rate_limited" /\ EndedInRetry
                 ELSE /\ Len(posts) = Len(uuids)
                      /\ failed # <<>> <=> (EndedInRetry /\ cause = "failed_attempts")
                      /\ failed = <<>> <=> status = "SUCCEEDED"
        /\ (pc = "done" /\ "error" \in PostOutcomes) => status # "SUCCEEDED"
        /\ status = "RETRY_SCHEDULED" => req.retries = runs

\* the POST of program 1 failed, program 2 was awarded after it, and the task
\* is retried once for program 1
C13_Witness ==
    /\ req.task = AwardProgram
    /\ posts = <<<<1, "error">>, <<2, "ok">>>>
    /\ failed = <<1>>
    /\ status = "RETRY_SCHEDULED"
    /\ cause = "failed_attempts"
    /\ req.retries = 1

\* C14: a retry triggered by a 429 answer uses up an attempt like any other:
\* the message is re-enqueued with the attempt number raised by one (after
\* the k-th run of a chain the attempt number is k), with countdown 60, and
\* once the attempt number is MAX_RETRIES a 429 answer ends the chain as
\* FAILED; so a chain that is rate-limited on every run is FAILED at its
\* 12th run.
C14_RateLimitConsumesAttempt ==
    /\ limited <= runs
    /\ runs <= MAX_RETRIES + 1
    /\ status = "RETRY_SCHEDULED" => req.retries = runs
    /\ (pc = "done" /\ cause = "rate_limited") =>
          /\ countdown = 60
          /\ IF runs - 1 < MAX_RETRIES
                THEN status = "RETRY_SCHEDULED" /\ req.retries = runs
                ELSE status = "FAILED" /\ req.retries = MAX_RETRIES
    /\ (pc = "done" /\ limited = runs /\ runs = MAX_RETRIES + 1) =>
          status = "FAILED" /\ ~ENABLED Start

\* every one of the 12 runs of the chain was answered 429
C14_Witness ==
    /\ status = "FAILED"
    /\ cause = "rate_limited"
    /\ runs = 12
    /\ limited = 12
    /\ req.retries = 11

\* what the rate-limited retries can add to the sum of the countdowns: 60 in
\* the place of 2^n at each attempt n up to k where 2^n is less than 60
RECURSIVE RateLimitExcess(_)
RateLimitExcess(k) ==
    IF k < 0 THEN 0
    ELSE (IF Pow2(k) < 60 THEN 60 - Pow2(k) ELSE 0) + RateLimitExcess(k - 1)

EntryStep ==
    /\ req.task \in Reconciliation
    /\ status = "RUNNING"
    /\ pc = "entry"
    /\ pc' # "entry"

\* the flag as an invocation that reads it now records it
FlagNow == IF issuance_enabled THEN "enabled" ELSE "disabled"

\* what follows the test of the flag in an entry step
C16_FlagTested ==
    /\ flag' = FlagNow
    /\ issuance_enabled => cause' # "issuance_disabled"
    /\ ~issuance_enabled =>
          /\ cause' = "issuance_disabled"
          /\ calls' = {}
          /\ posts' = <<>>
          /\ countdown' = Pow2(req.retries)
          /\ IF req.retries < MAX_RETRIES
                THEN status' = "RETRY_SCHEDULED" /\ req'.retries = req.retries + 1
                ELSE status' = "FAILED"

C16_AsStatedStep ==
    /\ status' = "RUNNING" /\ status # "RUNNING" => flag' = "unread"
    /\ EntryStep => C16_FlagTested

\* C16 as stated: every invocation of a reconciliation task, each retry
\* included, reads the flag at entry before any other decision; if it is
\* disabled then, the invocation ends in a retry without a client call; if
\* it is enabled the invocation is not stopped by the flag.
C16_FlagReadFirst == [][C16_AsStatedStep]_vars

C16_Step ==
    /\ status' = "RUNNING" /\ status # "RUNNING" => flag' = "unread"
    /\ EntryStep =>
          IF req.task = AwardProgram /\ IsAllSentinel(pwc')
             THEN /\ flag' = "unread"
                  /\ status' = "SUCCEEDED"
                  /\ calls' = {}
             ELSE C16_FlagTested

\* C16 amended: every invocation of a reconciliation task, each retry
\* included, starts without a value of the flag and reads it at entry; if it
\* is disabled then, the invocation makes no client call and ends by a retry
\* with countdown 2^n (by FAILED at attempt MAX_RETRIES); if it is enabled,
\* on a first run or on a retry, the invocation is not stopped by the flag.
\* One decision comes before the flag in award_program_certificates: when
\* programs_without_certificates is "all" the task returns without reading
\* the flag, enabled or not.
C16_FlagReadAtEntry == [][C16_Step]_vars

\* the first retry of revoke_program_certificates found issuance disabled as
\* the first run had, and waits for its second retry; issuance was enabled
\* since
C16_Witness ==
    /\ req.task = RevokeProgram
    /\ runs = 2
    /\ flag = "disabled"
    /\ cause = "issuance_disabled"
    /\ status = "RETRY_SCHEDULED"
    /\ req.retries = 2
    /\ calls = {}
    /\ issuance_enabled

RECURSIVE SumSeq(_)
SumSeq(q) == IF q = <<>> THEN 0 ELSE q[1] + SumSeq(Tail(q))

\* C18: an OperationalError raised while paged_query iterates a page never
\* leaves the generator: each one is caught and logged, the page ends there
\* and the loop goes on with the next page, so that the generator ends
\* normally after all its pages, having yielded, with their right index, the
\* items it got before the errors. (The only exception that leaves the
\* generator comes from queryset.count(), before any page.)
C18_ErrorSwallowed ==
    /\ gen = "raised" => pages = 0 /\ page_lens = <<>> /\ yielded = <<>>
    /\ gen # "raised" => Len(qlog) = errors
    /\ Len(page_lens) = page
    /\ Len(yielded) = SumSeq(page_lens) + (IF gen = "iter" THEN index ELSE 0)
    /\ \A i \in 1..Len(yielded) :
          /\ yielded[i][1] \in 1..Len(queryset)
          /\ yielded[i][2] = queryset[yielded[i][1]]
          /\ i > 1 => yielded[i - 1][1] < yielded[i][1]
    /\ gen = "done" => page = pages

\* 5 items in pages of 2: the first page ended on an error after 1 item, the
\* second on an error before its first item, the third gave its item
C18_Witness ==
    /\ gen = "done"
    /\ Len(queryset) = 5
    /\ page_size = 2
    /\ errors = 2
    /\ page_lens = <<1, 0, 1>>
    /\ yielded = <<<<1, queryset[1]>>, <<5, queryset[5]>>>>

\* C19 as stated: when the datastore raises the error during the iteration
\* of a page, paged_query logs the benign end ("info") exactly when the
\* number of items yielded so far over all pages equals the count taken at
\* the start, the warning exactly when it is smaller, and goes on with the
\* next page.
C19_Step ==
    (gen = "iter" /\ errors' = errors + 1) =>
        /\ qlog' = Append(qlog, IF Len(yielded) = count THEN "info" ELSE "warning")
        /\ page' = page + 1

C19_BenignWhenAllYielded == [][C19_Step]_vars

\* 5 items in pages of 3, all 5 yielded, the error came at the end of the
\* second page: "it is possible some results were missed" is logged
C19_Witness ==
    /\ gen = "done"
    /\ count = 5
    /\ page_size = 3
    /\ Len(yielded) = 5
    /\ qlog = <<"warning">>

\* C20: an invocation of award_course_certificate that found issuance
\* enabled POSTs a course credential only after it found the user, an
\* eligible certificate in a certificate-relevant mode and the course
\* overview; when the certificate is missing, its mode is not relevant, or
\* the course overview is missing, it makes no client call and ends SUCCEEDED
\* with no retry.
C20_CourseCertificateGate ==
    (req.task = AwardCourse /\ flag = "enabled") =>
        /\ "post" \in calls =>
              /\ req.username \in Users
              /\ certificate = "relevant"
              /\ course_overview = "ok"
              /\ Len(posts) = 1
        /\ "post" \notin calls => posts = <<>>
        /\ (pc = "done" /\ (\/ certificate \in {"missing", "irrelevant_mode"}
                             \/ course_overview = "missing")) =>
              /\ status = "SUCCEEDED"
              /\ countdown = 0
              /\ calls = {}
              /\ posts = <<>>

\* the certificate exists in a mode that is not certificate-relevant
C20_Witness ==
    /\ req.task = AwardCourse
    /\ flag = "enabled"
    /\ certificate = "irrelevant_mode"
    /\ status = "SUCCEEDED"
    /\ calls = {}
    /\ posts = <<>>

\* C21: a retry of award_program_certificates never POSTs a program whose
\* POST succeeded in an earlier attempt of the chain, and it POSTs only
\* programs that it read as completed and found neither certified nor
\* excluded; when its loop runs to the end it has POSTed all of them, those
\* whose earlier POST ended in not-found or in an ordinary client error
\* included
C21_RetryRederives ==
    (req.task = AwardProgram /\ req.retries >= 1 /\ status # "PENDING") =>
        /\ Attempted \cap earlier.ok = {}
        /\ Attempted \subseteq
               completed_programs \ (existing_program_uuids \cup Range(pwc))
        /\ (posts # <<>> /\ pc = "done" /\ ~RateLimitedInLoop) =>
               Attempted = completed_programs
                             \ (existing_program_uuids \cup Range(pwc))
        /\ earlier.ok \subseteq certified

\* C21 as stated: after a partially failed attempt a retry POSTs no program
\* whose POST succeeded before, only programs that were put on the failed
\* list by an earlier attempt of the chain or that no earlier attempt read
\* as completed, and none whose earlier POST ended in not-found or in an
\* ordinary client error
C21_OnlyFailedOrNew ==
    (req.task = AwardProgram /\ req.retries >= 1 /\ earlier.hard # {}) =>
        /\ Attempted \cap earlier.ok = {}
        /\ Attempted \subseteq earlier.hard \cup (Programs \ earlier.seen)
        /\ Attempted \cap (earlier.soft \ earlier.hard) = {}

\* the first attempt got a 404 for program 1 and a transport failure for
\* program 2; the retry POSTs both again
C21_Witness ==
    /\ req.task = AwardProgram
    /\ req.retries = 10
    /\ earlier.soft = {1}
    /\ earlier.hard = {2}
    /\ earlier.ok = {}
    /\ posts = <<<<1, "ok">>, <<2, "ok">>>>

\* C22: under a fair worker every chain ends in SUCCEEDED or FAILED, after at
\* most MAX_RETRIES + 1 executions, whatever the flag, the datastore and the
\* Credentials client do; an invocation that schedules a retry has ended
C22_ChainTerminates ==
    /\ [](runs <= MAX_RETRIES + 1)
    /\ [](status = "RETRY_SCHEDULED" => pc = "done")
    /\ [](status = "RUNNING" => countdown = 0)
    /\ (status \in {"PENDING", "RETRY_SCHEDULED", "RUNNING"})
          ~> (status \in {"SUCCEEDED", "FAILED"})

\* a revoke chain whose twelve executions all ended in a retry
C22_Witness ==
    /\ req.task = RevokeProgram
    /\ status = "FAILED"
    /\ runs = MAX_RETRIES + 1
    /\ req.retries = MAX_RETRIES
    /\ cause \in RetryCauses

\* the courses of the notifications of a kind that were dispatched
DispatchedFor(kind) ==
    {dispatched[i].course :
        i \in {j \in 1..Len(dispatched) : dispatched[j].kind = kind}}

\* how many notifications of a kind were dispatched
CountDispatched(kind) ==
    Cardinality({j \in 1..Len(dispatched) : dispatched[j].kind = kind})

\* the rows of a queryset that the site filter lets through
OfSite(q) ==
    {q[i] : i \in {j \in 1..Len(q) : options.site = ""
                                        \/ HasOrg(options.site, OrgOf(q[j].course))}}

\* the certificate mode and status that a call of send_grade_if_interesting
\* had in hand or read
ModeOf(g) == IF g.mode = "None" \/ g.status = "None" THEN g.cert.mode ELSE g.mode
StatusOf(g) ==
    IF g.mode = "None" \/ g.status = "None" THEN g.cert.status ELSE g.status

\* the grade's certificate is one the spec calls interesting and its course
\* run is in a program
Interesting(g) ==
    /\ ModeOf(g) \in INTERESTING_MODES
    /\ StatusOf(g) \in INTERESTING_STATUSES
    /\ \E p \in Programs : g.course \in ProgramCourseRuns(p)

C24_OnlyInterestingForwarded ==
    /\ \A i \in 1..Len(graded) :
          graded[i].why = "sent" =>
             /\ ModeOf(graded[i]) \in INTERESTING_MODES
             /\ StatusOf(graded[i]) \in INTERESTING_STATUSES
             /\ \E p \in Programs : graded[i].course \in ProgramCourseRuns(p)
             /\ graded[i].cert # NoCert
    /\ DispatchedFor("grade")
          \subseteq {graded[i].course :
                        i \in {j \in 1..Len(graded) : graded[j].why = "sent"}}

\* the grade of course run 1 is forwarded on the certificate read from the
\* datastore, the grade of course run 3, whose certificate is as good, is
\* not: the run is in no program
C24_Witness ==
    /\ Len(graded) = 2
    /\ graded[1].course = 1
    /\ graded[1].mode = "None"
    /\ graded[1].cert.mode = "verified"
    /\ graded[1].cert.status = "notpassing"
    /\ graded[1].why = "sent"
    /\ graded[2].course = 3
    /\ ModeOf(graded[2]) = "verified"
    /\ StatusOf(graded[2]) = "downloadable"
    /\ graded[2].why = "not_in_program"
    /\ DispatchedFor("grade") = {1}

\* the programs POSTed by invocation i, in order
PostsBy(i) ==
    LET mine == SelectSeq(rposts, LAMBDA r : r.by = i /\ r.outcome # "listed")
    IN  [k \in 1..Len(mine) |-> mine[k].uuid]

\* the positions of the POSTs for program p that succeeded
OkPostsOf(p) ==
    {k \in 1..Len(rposts) : rposts[k].uuid = p /\ rposts[k].outcome = "ok"}

\* C25: no invocation ever waits for another one; each POSTs the programs of
\* the list it made from its own listing, whatever was POSTed since; and a
\* program POSTed successfully is awarded or revoked at the end as its last
\* successful POST, whichever invocation's it is, left it
C25_NoMutualExclusion ==
    \A i \in Instances :
       /\ inst[i].pc = "entry" => ENABLED RaceEntry(i)
       /\ inst[i].pc = "loop" => ENABLED RacePost(i)
       /\ PostsBy(i) = SubSeq(inst[i].uuids, 1, inst[i].idx - 1)
       /\ \A p \in Programs :
             OkPostsOf(p) # {} =>
                LET last == CHOOSE k \in OkPostsOf(p) :
                               \A m \in OkPostsOf(p) : m <= k
                IN  p \in certified <=> rposts[last].task = AwardProgram

\* two awards listed the certified programs before either POSTed; the first
\* awarded program 1, a revoke that listed it then revoked it, and the
\* second award POSTed the same credential again: POSTed twice, and awarded
\* at the end although the revoke came after an award; had the second award
\* POSTed before the revoke, the credential would be revoked at the end
C25_Witness ==
    /\ \A i \in Instances : inst[i].pc = "done"
    /\ Len(rposts) = 6
    /\ [k \in 1..6 |-> rposts[k].by] = <<1, 2, 1, 3, 3, 2>>
    /\ [k \in 1..6 |-> rposts[k].outcome]
          = <<"listed", "listed", "ok", "listed", "ok", "ok">>
    /\ inst[1].task = AwardProgram
    /\ inst[2].task = AwardProgram
    /\ inst[3].task = RevokeProgram
    /\ rposts[3].uuid = 1 /\ rposts[5].uuid = 1 /\ rposts[6].uuid = 1
    /\ certified = {1}

\* C26: without a certificate (and without can_refund) refundable() is true
\* when the refund cutoff date is after the call and false when it is
\* before, at every call, whatever an earlier call returned and whether or
\* not the verified mode has expired
C26_RefundableFollowsCutoff ==
    (/\ answer.call = "refundable"
     /\ ~answer.cert
     /\ answer.can_refund = "None"
     /\ answer.cutoff # NoDate) =>
        /\ answer.cutoff > answer.now => answer.value = "True"
        /\ answer.cutoff < answer.now => answer.value = "False"

\* refundable() was false after the cutoff; the refund window was made
\* longer and the mode has expired: it is true again
C26_Witness ==
    /\ answer.call = "refundable"
    /\ ~answer.cert
    /\ answer.can_refund = "None"
    /\ answer.before = "False"
    /\ answer.expired
    /\ answer.cutoff > answer.now
    /\ answer.value = "True"

\* C27: with a certificate generated refundable() is false, looked up or
\* passed, wherever the cutoff is, unless can_refund is set, and then it
\* is true
C27_CertificateEndsRefunds ==
    answer.call = "refundable" =>
        /\ (answer.cert /\ answer.can_refund = "None") => answer.value = "False"
        /\ answer.can_refund # "None" => answer.value = "True"

\* a certificate made refundable() false before the cutoff; with
\* can_refund set it is true, the certificates being passed by the caller
C27_Witness ==
    /\ answer.call = "refundable"
    /\ answer.cert
    /\ answer.certs_for = "passed"
    /\ answer.cutoff > answer.now
    /\ answer.before = "False"
    /\ answer.can_refund = "True"
    /\ answer.value = "True"

C29_OrderDateCached ==
    /\ answer.fetched =>
          /\ ~answer.cached
          /\ answer.order_number
          /\ enrollment.date_placed = DateString(world.order_date)
    /\ answer.cached => ~answer.fetched
    /\ ecommerce_calls <= 1
    /\ ecommerce_calls = 1 => enrollment.date_placed = DateString(world.order_date)

\* the second call of refund_cutoff_date(): the first one fetched the order
C29_Witness ==
    /\ answer.call = "refund_cutoff_date"
    /\ ecommerce_calls = 1
    /\ answer.order_number
    /\ answer.cached
    /\ ~answer.fetched
    /\ answer.value = "date"

\* C30: in the award and revoke loops a 429 answer ends the invocation at
\* once: it is the last POST of the invocation, the programs after it in the
\* list are not attempted, the task is retried after 60 s (or the chain
\* fails, at the last attempt) whatever the failed list holds, and the
\* programs POSTed successfully before it stay awarded or revoked
C30_RateLimitAborts ==
    req.task \in {AwardProgram, RevokeProgram} =>
        /\ \A i \in 1..Len(posts) : posts[i][1] = uuids[i]
        /\ \A i \in 1..Len(posts) :
              posts[i][2] = "rate_limited" =>
                 /\ i = Len(posts)
                 /\ pc = "done"
                 /\ cause = "rate_limited"
                 /\ countdown = RateLimitCountdown
                 /\ status = IF runs <= MAX_RETRIES THEN "RETRY_SCHEDULED"
                             ELSE "FAILED"
                 /\ {uuids[j] : j \in i + 1..Len(uuids)} \cap Attempted = {}
                 /\ IF req.task = AwardProgram
                       THEN OkPosts \subseteq certified
                       ELSE OkPosts \cap certified = {}

\* award_program_certificates: the POST of program 1 was answered 429 and
\* program 2, next in the list, was not attempted
C30_Witness ==
    /\ req.task = AwardProgram
    /\ uuids = <<1, 2>>
    /\ posts = <<<<1, "rate_limited">>>>
    /\ failed = <<>>
    /\ status = "RETRY_SCHEDULED"
    /\ countdown = RateLimitCountdown

\* the pages of the loop whose body was entered so far
PagesEntered ==
    CASE gen = "iter" -> page + 1
      [] gen = "page" -> page
      [] gen = "done" -> pages
      [] OTHER -> 0

YieldedIndexes == {yielded[i][1] : i \in 1..Len(yielded)}

\* the indexes of the k-th page of the loop (k = 0 for the first)
IndexesOfPage(k) == (k * page_size + 1)..Min((k + 1) * page_size, Len(queryset))

\* C32: in paged_query, even when an OperationalError cuts a page short, the
\* yielded indexes stay strictly increasing and the pair of index i carries
\* the i-th item of the queryset: of each page, what was yielded is the first
\* items of the page, from index page * page_size + 1 on, the items of an
\* interrupted page that were not yet yielded are skipped for good, and the
\* page after it starts at its own first index.
C32_IndexIntegrity ==
    /\ \A i \in 1..Len(yielded) :
          /\ yielded[i][1] \in 1..Len(queryset)
          /\ yielded[i][2] = queryset[yielded[i][1]]
          /\ \A j \in 1..Len(yielded) : i < j => yielded[i][1] < yielded[j][1]
    /\ \A k \in 1..Len(page_lens) :
          YieldedIndexes \cap IndexesOfPage(k - 1)
             = ((k - 1) * page_size + 1)..((k - 1) * page_size + page_lens[k])
    /\ gen = "iter" =>
          YieldedIndexes \cap IndexesOfPage(page)
             = (page * page_size + 1)..(page * page_size + index)
    /\ \A k \in Len(page_lens)..(pages - 1) :
          (k > page \/ gen # "iter") => YieldedIndexes \cap IndexesOfPage(k) = {}

\* 5 items in pages of 2: the first page was cut short after its first item,
\* item 2 was skipped and never yielded, the second page began at index 3
C32_Witness ==
    /\ gen = "done"
    /\ Len(queryset) = 5
    /\ page_size = 2
    /\ errors = 1
    /\ page_lens = <<1, 2, 1>>
    /\ yielded = <<<<1, queryset[1]>>, <<3, queryset[3]>>, <<4, queryset[4]>>,
                   <<5, queryset[5]>>>>

\* the first entry of the configured list is "all", in any letter case
FirstIsAll(cfg) == cfg # <<>> /\ cfg[1] \in {AllLower, AllUpper}

\* C33: when the first entry of programs_without_certificates is "all", in
\* any letter case, an invocation of award_program_certificates returns at
\* once, SUCCEEDED, whoever the student is: the flag is not read, no
\* Credentials client call and no POST is made and no retry is scheduled. An
\* "all" at a later position has no such effect: the flag is read and the
\* task goes on as with any other list.
C33_AllSentinel ==
    (req.task = AwardProgram /\ pc = "done" /\ runs > 0) =>
        /\ FirstIsAll(pwc) =>
              /\ status = "SUCCEEDED"
              /\ cause = "programs_without_certificates"
              /\ flag = "unread"
              /\ calls = {}
              /\ posts = <<>>
              /\ failed = <<>>
              /\ countdown = 0
        /\ ~FirstIsAll(pwc) =>
              /\ cause # "programs_without_certificates"
              /\ flag # "unread"

\* "ALL" first, issuance disabled, a student with a completed program: the
\* invocation returned without the retry the disabled flag would have caused
C33_Witness ==
    /\ req.task = AwardProgram
    /\ req.username \in Users
    /\ pc = "done"
    /\ pwc = <<AllUpper>>
    /\ ~issuance_enabled
    /\ completed # {}
    /\ status = "SUCCEEDED"
    /\ flag = "unread"
    /\ calls = {}

\* a site configuration is given and the course run's organisation is not
\* one of the site's
Foreign(course) == options.site # "" /\ ~HasOrg(options.site, OrgOf(course))

\* the items among the first n of a queryset that are not Foreign
Kept(q, n) == {k \in 1..n : ~Foreign(q[k].course)}

CallsOf(kind, course) ==
    {i \in 1..Len(dispatched) :
        dispatched[i] = [kind |-> kind, course |-> course]}

\* the certificates that the first loop of send_notifications has handled
\* and not skipped
CertsHandled ==
    LET ran == /\ ~options.dry_run
               /\ (options.site = "" \/ ~NoSiteConfiguration(options.site))
        n == IF phase = "certs" THEN handled
             ELSE IF phase \in {"grades", "done"} /\ ran THEN Len(certs)
             ELSE 0
    IN  {certs[k] : k \in Kept(certs, n)}

SentFor(course) ==
    {i \in 1..Len(graded) : graded[i].course = course /\ graded[i].why = "sent"}

\* C36: send_grade_if_interesting never schedules send_grade_to_credentials
\* when it reads is_learner_issuance_enabled as false or learner records as
\* disabled for the course's organisation, whatever the mode, the status, the
\* program membership and the grade: it returns at the first of the two gates
\* that is closed, having read nothing further. When both are open, the
\* certificate is at hand or found, its mode and status are interesting and
\* the course run is in a program, it schedules the task, once, unless no
\* grade was given and none is found.
C36_GradeGates ==
    /\ \A i \in 1..Len(graded) :
          LET g == graded[i]
          IN  /\ g.flag = issuance_enabled
              /\ g.why = "sent" => g.flag /\ g.records = "enabled"
              /\ ~g.flag =>
                    /\ g.why = "issuance_disabled"
                    /\ g.records = "unread"
                    /\ g.cert = CertUnread
              /\ g.records = "disabled" =>
                    /\ g.why = "records_disabled"
                    /\ g.cert = CertUnread
              /\ (g.flag /\ g.records = "enabled" /\ g.cert # NoCert
                     /\ Interesting(g)) =>
                    /\ g.why \in {"sent", "no_grade"}
                    /\ g.why = "sent" <=> g.letter # "None"
    /\ \A c \in NotifyCourseRuns :
          Cardinality(CallsOf("grade", c)) = Cardinality(SentFor(c))

\* the grade "A" of course run 1, which is in a program, with the
\* certificate verified and downloadable in hand and issuance enabled: learner
\* records are disabled for the organisation and no task is scheduled
C36_Witness ==
    /\ phase = "done"
    /\ issuance_enabled
    /\ Len(graded) = 1
    /\ graded[1].course = 1
    /\ graded[1].mode = "verified"
    /\ graded[1].status = "downloadable"
    /\ graded[1].letter = "A"
    /\ graded[1].records = "disabled"
    /\ graded[1].why = "records_disabled"
    /\ DispatchedFor("grade") = {}

\* the users holding an eligible available certificate in the task's course
HoldersInCourse ==
    {u \in CertificateHolders :
        <<u, req.course_key>> \in eligible_available_certificates}

\* C37: an invocation of update_certificate_visible_date_on_course_update
\* that finds issuance enabled puts on the queue exactly one update of the
\* course certificate configuration and then exactly one
\* award_course_certificate per user holding an eligible available
\* certificate in the course, each with the course and the available date it
\* was given, and ends SUCCEEDED; one that finds issuance disabled puts
\* nothing on the queue and schedules its own retry with countdown 2^n, n
\* being its attempt number, with at most MAX_RETRIES retries.
C37_VisibleDateUpdate ==
    req.task = UpdateVisibleDate =>
        /\ req.retries <= MAX_RETRIES
        /\ runs <= MAX_RETRIES + 1
        /\ delayed # <<>> => (pc = "done" /\ flag = "enabled")
        /\ (pc = "done" /\ flag = "enabled") =>
              /\ status = "SUCCEEDED"
              /\ Len(delayed) = 1 + Cardinality(HoldersInCourse)
              /\ delayed[1] = [task |-> UpdateConfiguration,
                               course_key |-> req.course_key,
                               certificate_available_date |->
                                   certificate_available_date]
              /\ \A u \in HoldersInCourse :
                    Cardinality({i \in 2..Len(delayed) :
                        delayed[i] = [task |-> AwardCourse, username |-> u,
                                      course_key |-> req.course_key,
                                      certificate_available_date |->
                                          certificate_available_date]}) = 1
        /\ (pc = "done" /\ flag = "disabled") =>
              /\ delayed = <<>>
              /\ status \in {"RETRY_SCHEDULED", "FAILED"}
              /\ cause = "issuance_disabled"
              /\ countdown = Pow2(EndedAttempt)
              /\ status = "FAILED" => req.retries = MAX_RETRIES

\* the third attempt, after two that found issuance disabled: both users
\* hold a certificate in course run 1 and one of them another in course run 2;
\* the configuration update and the two awards for course run 1 are queued
C37_Witness ==
    /\ req.task = UpdateVisibleDate
    /\ req.course_key = 1
    /\ req.retries = 2
    /\ status = "SUCCEEDED"
    /\ certificate_available_date = 2
    /\ eligible_available_certificates
          = {<<"alice", 1>>, <<"bob", 1>>, <<"alice", 2>>}
    /\ delayed = <<[task |-> UpdateConfiguration, course_key |-> 1,
                    certificate_available_date |-> 2],
                   [task |-> AwardCourse, username |-> "bob", course_key |-> 1,
                    certificate_available_date |-> 2],
                   [task |-> AwardCourse, username |-> "alice",
                    course_key |-> 1, certificate_available_date |-> 2]>>

====
